---------------------------- MODULE Spec2Model ----------------------------
(***************************************************************************)
(* Memory lifetime verification of lib/SIL/MemoryLifetime.cpp:             *)
(*   - MemoryLocations  : the table of tracked memory locations            *)
(*   - MemoryDataflow   : the bit-vector dataflow over the CFG             *)
(*   - MemoryLifetimeVerifier : gen/kill seeding and the checking pass     *)
(* Bit vectors (SmallBitVector) are modelled as sets of bit indices.       *)
(* Blocks are numbered 1..n in function order, block 1 is the entry block. *)
(* Location indices start at 0 as in the code: location i is               *)
(* locations[i + 1].                                                       *)
(***************************************************************************)
EXTENDS Integers, Sequences, FiniteSets, TLC

VARIABLES
  fn,           \* the SIL function under verification
  dontAbort,    \* the option DontAbortOnMemoryLifetimeErrors
  pc,           \* position of the run: which step comes next
  locations,    \* MemoryLocations::locations
  addr2LocIdx,  \* MemoryLocations::addr2LocIdx
  singleBlockLocations, \* MemoryLocations::singleBlockLocations
  succs,        \* succs[b]: the successor blocks of block b (the CFG)
  numBits,      \* width of every bit vector (MemoryDataflow: numLocations)
  blockStates,  \* MemoryDataflow::blockStates, one BlockState per block
  seed,         \* blockStates as they were when the solver was entered
  cur,          \* the block (or single-block location) a loop is at
  changed,      \* solveDataflow*: bool changed
  firstRound,   \* solveDataflow*: bool firstRound
  rounds,       \* number of completed sweeps of the do-while loop
  bits,         \* the running bits of the last checkBlock
  failures,     \* the failures require() has printed, in order
  asserts,      \* the assert()s of the verifier found false
  run,          \* 1 in the first verification of fn, 2 in a repeated one
  firstRun,     \* failures and end of the first verification (run = 2)
  workList      \* entryReachabilityAnalysis: the blocks still to visit

vars == <<fn, dontAbort, pc, locations, addr2LocIdx, singleBlockLocations,
          succs, numBits, blockStates, seed, cur, changed, firstRound,
          rounds, bits, failures, asserts, run, firstRun, workList>>

engineVars == <<succs, numBits, blockStates, seed, cur, changed, firstRound,
                rounds>>
tableVars == <<locations, addr2LocIdx, singleBlockLocations>>

Range(s) == {s[i] : i \in 1 .. Len(s)}

Min(S) == CHOOSE x \in S : \A y \in S : x <= y

-----------------------------------------------------------------------------
(* Bounds.                                                                 *)

(* The dataflow engine on its own: CFGs of up to MaxBlocks blocks and bit  *)
(* vectors of up to MaxBits bits.                                          *)
MaxBlocks == 2
MaxBits == 1
(* The sweep counter stops counting here (it is never reached by the code).*)
MaxRounds == 12
(* Reachability on its own: CFGs of up to MaxReachBlocks blocks.           *)
MaxReachBlocks == 4
(* The generated functions have bodies of up to MaxBody memory operations. *)
MaxBody == 2

-----------------------------------------------------------------------------
(* The SIL function: what the verifier reads of it.                        *)
(*   fn.args[i]   : [conv, ty] of function argument i, whose value is i    *)
(*   fn.blocks[b] : the instructions of block b, the terminator last       *)
(* An instruction is a record                                              *)
(*   kind  : the SILInstructionKind                                        *)
(*   res   : the value it defines (0: none)                                *)
(*   ops   : its operand values (of a call: the argument operands)         *)
(*   qual  : ownership qualifier of a load or store                        *)
(*   take, init : the flags of copy_addr                                   *)
(*   ty    : the type of res                                               *)
(*   field : the field number of a struct/tuple_element_addr               *)
(*   convs : the argument convention of each operand of a call or yield    *)
(*   dyn   : hasDynamicLifetime of alloc_stack                             *)
(*   succ  : the successor blocks of a terminator; of try_apply the normal *)
(*           block first, the error block second                           *)

Ins(kind, res, ops) ==
  [kind |-> kind, res |-> res, ops |-> ops, qual |-> "", take |-> FALSE,
   init |-> FALSE, ty |-> "", field |-> 0, convs |-> <<>>, dyn |-> FALSE,
   succ |-> <<>>]

AllocStack(r, ty)    == [Ins("alloc_stack", r, <<>>) EXCEPT !.ty = ty]
AllocStackDyn(r, ty) == [AllocStack(r, ty) EXCEPT !.dyn = TRUE]
DeallocStack(v)      == Ins("dealloc_stack", 0, <<v>>)
Load(q, v)           == [Ins("load", 0, <<v>>) EXCEPT !.qual = q]
Store(q, v)          == [Ins("store", 0, <<v>>) EXCEPT !.qual = q]
DestroyAddr(v)       == Ins("destroy_addr", 0, <<v>>)
DebugValueAddr(v)    == Ins("debug_value_addr", 0, <<v>>)
CopyAddr(s, d, t, i) == [Ins("copy_addr", 0, <<s, d>>) EXCEPT !.take = t, !.init = i]
ElementAddr(k, r, v, fld, ty) == [Ins(k, r, <<v>>) EXCEPT !.field = fld, !.ty = ty]
BeginAccess(r, v, ty) == [Ins("begin_access", r, <<v>>) EXCEPT !.ty = ty]
EndAccess(v)         == Ins("end_access", 0, <<v>>)
LoadBorrow(r, v)     == Ins("load_borrow", r, <<v>>)
EndBorrow(v)         == Ins("end_borrow", 0, <<v>>)
AddressToPointer(v)  == Ins("address_to_pointer", 0, <<v>>)
Apply(ops, convs)    == [Ins("apply", 0, ops) EXCEPT !.convs = convs]
TryApply(ops, convs, normal, error) ==
  [Ins("try_apply", 0, ops) EXCEPT !.convs = convs, !.succ = <<normal, error>>]
Yield(ops, convs, resume, unwind) ==
  [Ins("yield", 0, ops) EXCEPT !.convs = convs, !.succ = <<resume, unwind>>]
Return      == Ins("return", 0, <<>>)
Throw       == Ins("throw", 0, <<>>)
Unwind      == Ins("unwind", 0, <<>>)
Unreachable == Ins("unreachable", 0, <<>>)
Br(b)       == [Ins("br", 0, <<>>) EXCEPT !.succ = <<b>>]
CondBr(t, e) == [Ins("cond_br", 0, <<>>) EXCEPT !.succ = <<t, e>>]

Arg(conv, ty) == [conv |-> conv, ty |-> ty]

(* The types of the module: whether the verifier tracks locations of the   *)
(* type, whether the type is a nominal type, whether that is resilient,    *)
(* and the types of its stored properties or tuple elements.               *)
(*   T   a loadable, non-trivial type without fields                       *)
(*   Int a trivial type                                                    *)
(*   S   struct S { a: T; b: T }                                           *)
(*   SI  struct SI { a: T; i: Int }                                        *)
(*   P   the tuple (S, T)                                                  *)
(*   R   a resilient struct with the stored properties a: T; b: T          *)
(*   PR  the tuple (R, T)                                                  *)
TypeInfo(ty) ==
  CASE ty = "T"   -> [track |-> TRUE,  nominal |-> TRUE,  resilient |-> FALSE, fields |-> <<>>]
    [] ty = "Int" -> [track |-> FALSE, nominal |-> TRUE,  resilient |-> FALSE, fields |-> <<>>]
    [] ty = "S"   -> [track |-> TRUE,  nominal |-> TRUE,  resilient |-> FALSE, fields |-> <<"T", "T">>]
    [] ty = "SI"  -> [track |-> TRUE,  nominal |-> TRUE,  resilient |-> FALSE, fields |-> <<"T", "Int">>]
    [] ty = "P"   -> [track |-> TRUE,  nominal |-> FALSE, resilient |-> FALSE, fields |-> <<"S", "T">>]
    [] ty = "R"   -> [track |-> TRUE,  nominal |-> TRUE,  resilient |-> TRUE,  fields |-> <<"T", "T">>]
    [] ty = "PR"  -> [track |-> TRUE,  nominal |-> FALSE, resilient |-> FALSE, fields |-> <<"R", "T">>]

(* MemoryLocations::shouldTrackLocation (declared in MemoryLifetime.h).    *)
shouldTrackLocation(ty) == TypeInfo(ty).track

(* The positions <<block, index>> of all instructions, in function order.  *)
RECURSIVE PositionsFrom(_, _)
PositionsFrom(f, b) ==
  IF b > Len(f.blocks) THEN <<>>
  ELSE [i \in 1 .. Len(f.blocks[b]) |-> <<b, i>>] \o PositionsFrom(f, b + 1)

Positions(f) == PositionsFrom(f, 1)

InstAt(f, pos) == f.blocks[pos[1]][pos[2]]

Terminator(f, b) == f.blocks[b][Len(f.blocks[b])]

IsArgument(f, v) == v \in 1 .. Len(f.args)

(* The position of the instruction that defines value v.                   *)
DefPos(f, v) ==
  CHOOSE p \in Range(Positions(f)) : InstAt(f, p).res = v

ValueType(f, v) ==
  IF IsArgument(f, v) THEN f.args[v].ty ELSE InstAt(f, DefPos(f, v)).ty

ValueKind(f, v) ==
  IF IsArgument(f, v) THEN "argument" ELSE InstAt(f, DefPos(f, v)).kind

(* SILValue::getUses: the instructions that have v as an operand; the use  *)
(* list is taken in function order.                                        *)
Uses(f, v) ==
  SelectSeq(Positions(f), LAMBDA p : v \in Range(InstAt(f, p).ops))

(* SILBasicBlock::getSuccessorBlocks and getPredecessorBlocks.  The list   *)
(* of predecessors has one entry per CFG edge, in block order.             *)
SuccessorSet(f, b) == Range(Terminator(f, b).succ)

RECURSIVE PredecessorListFrom(_, _, _)
PredecessorListFrom(f, b, p) ==
  IF p > Len(f.blocks) THEN <<>>
  ELSE LET edges == SelectSeq(Terminator(f, p).succ, LAMBDA s : s = b)
       IN  [i \in 1 .. Len(edges) |-> p] \o PredecessorListFrom(f, b, p + 1)

PredecessorList(f, b) == PredecessorListFrom(f, b, 1)

-----------------------------------------------------------------------------
(* MemoryLocations: the location table.                                    *)

INT_MAX == 2147483647

(* MemoryLocations::Location::Location (lines 84-92).  The counter         *)
(* numFieldsNotCoveredBySubfields starts at -1: not yet computed.          *)
NewLocation(val, index, parentIdx) ==
  [representativeValue |-> val,
   parentIdx |-> parentIdx,
   subLocations |-> {index},
   selfAndParents |-> {index},
   numFieldsNotCoveredBySubfields |-> -1]

EmptyTable == [locs |-> <<>>, a2l |-> <<>>]

MapPut(m, k, v) == [x \in DOMAIN m \cup {k} |-> IF x = k THEN v ELSE m[x]]

MapErase(m, ks) == [x \in DOMAIN m \ ks |-> m[x]]

GetBaseValueOfOneAccess(f, addr) ==
  IF ValueKind(f, addr) = "begin_access"
  THEN InstAt(f, DefPos(f, addr)).ops[1]
  ELSE addr

(* getBaseValue (lines 94-104): strips begin_access.                       *)
RECURSIVE getBaseValue(_, _)
getBaseValue(f, addr) ==
  IF ValueKind(f, addr) = "begin_access"
  THEN getBaseValue(f, InstAt(f, DefPos(f, addr)).ops[1])
  ELSE addr

(* MemoryLocations::getLocationIdx (lines 106-111).                        *)
getLocationIdx(f, a2l, addr) ==
  LET base == getBaseValue(f, addr)
  IN  IF base \in DOMAIN a2l THEN a2l[base] ELSE -1

(* allUsesInSameBlock (lines 58-74): the result, and whether the assert on *)
(* the number of dealloc_stacks holds.                                     *)
DeallocUses(f, asi) ==
  SelectSeq(Uses(f, asi), LAMBDA p : InstAt(f, p).kind = "dealloc_stack")

allUsesInSameBlock(f, asi) ==
  LET deallocs == DeallocUses(f, asi)
      BB == DefPos(f, asi)[1]
  IN  IF \E i \in 1 .. Len(deallocs) : deallocs[i][1] # BB
      THEN FALSE
      ELSE Len(deallocs) = 1

(* MemoryLocations::initFieldsCounter (lines 308-334).                     *)
TrackedFieldCount(ty) ==
  Cardinality({i \in 1 .. Len(TypeInfo(ty).fields) :
                 shouldTrackLocation(TypeInfo(ty).fields[i])})

InitFieldsCounterOfStoredProperties(f, loc) ==
  IF loc.numFieldsNotCoveredBySubfields >= 0 THEN loc
  ELSE [loc EXCEPT !.numFieldsNotCoveredBySubfields =
          TrackedFieldCount(ValueType(f, loc.representativeValue))]

initFieldsCounter(f, loc) ==
  IF loc.numFieldsNotCoveredBySubfields >= 0 THEN loc
  ELSE LET ty == ValueType(f, loc.representativeValue)
       IN  [loc EXCEPT !.numFieldsNotCoveredBySubfields =
              IF TypeInfo(ty).nominal /\ TypeInfo(ty).resilient
              THEN INT_MAX
              ELSE TrackedFieldCount(ty)]

(* The indices the do-while loops of analyzeAddrProjection visit: idx and  *)
(* the locations reached from it along parentIdx (lines 279-284, 290-295). *)
RECURSIVE ParentChain(_, _)
ParentChain(locs, idx) ==
  IF idx < 0 THEN {}
  ELSE {idx} \cup ParentChain(locs, locs[idx + 1].parentIdx)

AddToParentOnly(locs, parentLocIdx, subLocIdx) ==
  [i \in 1 .. Len(locs) |->
     IF i = parentLocIdx + 1
     THEN [locs[i] EXCEPT !.subLocations = @ \cup {subLocIdx}]
     ELSE locs[i]]

(* lines 279-284: the new sub-location's bit is set in the parent and in   *)
(* all its ancestors.                                                      *)
AddToAncestors(locs, parentLocIdx, subLocIdx) ==
  LET chain == ParentChain(locs, parentLocIdx)
  IN  [i \in 1 .. Len(locs) |->
         IF (i - 1) \in chain
         THEN [locs[i] EXCEPT !.subLocations = @ \cup {subLocIdx}]
         ELSE locs[i]]

RetireParentBitInParentOnly(locs, parentLocIdx) ==
  [i \in 1 .. Len(locs) |->
     IF i = parentLocIdx + 1
     THEN [locs[i] EXCEPT !.subLocations = @ \ {parentLocIdx}]
     ELSE locs[i]]

(* lines 289-296: once all fields of the parent are covered, the parent's  *)
(* own bit is reset in the parent and in all its ancestors.                *)
RetireParentBit(locs, parentLocIdx) ==
  LET chain == ParentChain(locs, parentLocIdx)
  IN  [i \in 1 .. Len(locs) |->
         IF (i - 1) \in chain
         THEN [locs[i] EXCEPT !.subLocations = @ \ {parentLocIdx}]
         ELSE locs[i]]

(* lines 271-296: a new sub-location for a field projected the first time. *)
AddSubLocation(f, locs, projection, subLocIdx, parentLocIdx) ==
  LET child == [NewLocation(projection, subLocIdx, parentLocIdx) EXCEPT
                  !.selfAndParents = @ \cup locs[parentLocIdx + 1].selfAndParents]
      pushed == Append(locs, child)
      added == AddToAncestors(pushed, parentLocIdx, subLocIdx)
      counted == initFieldsCounter(f, added[parentLocIdx + 1])
      left == counted.numFieldsNotCoveredBySubfields - 1
      decremented ==
        [i \in 1 .. Len(added) |->
           IF i = parentLocIdx + 1
           THEN [counted EXCEPT !.numFieldsNotCoveredBySubfields = left]
           ELSE added[i]]
  IN  IF left = 0 THEN RetireParentBit(decremented, parentLocIdx)
      ELSE decremented

(* The switch of analyzeLocationUsesRecursively (lines 218-257): what the  *)
(* walk does with a use of the given user.                                 *)
UseVerdict(user) ==
  CASE user.kind \in {"struct_element_addr", "tuple_element_addr"} -> "projection"
    [] user.kind = "begin_access" -> "scope"
    [] user.kind = "store" ->
         IF user.qual = "trivial" THEN "reject" ELSE "accept"
    [] user.kind \in {"load", "end_access", "load_borrow", "destroy_addr",
                      "apply", "try_apply", "debug_value_addr", "copy_addr",
                      "yield", "dealloc_stack"} -> "accept"
    [] OTHER -> "reject"

(* The references analyzeAddrProjection takes into a table and uses after  *)
(* the table has got a further element.  parentLoc (line 273) refers to    *)
(* locations[parentLocIdx]; the child is pushed to locations in line 275   *)
(* and parentLoc is read in line 277 and read and written in lines         *)
(* 286-289.  subLocIdx (line 269) refers to the slot of the key in         *)
(* subLocationMap; the calls of line 299 insert the keys of the nested     *)
(* projections and subLocIdx is read again in line 303.                    *)
HeldParentLoc(projection, parentLocIdx) ==
  [ref |-> "parentLoc", table |-> "locations", at |-> projection,
   slot |-> <<parentLocIdx>>]

HeldSubLocIdx(projection, key) ==
  [ref |-> "subLocIdx", table |-> "subLocationMap", at |-> projection,
   slot |-> key]

(* analyzeLocationUsesRecursively (lines 208-260) from the k-th use on and *)
(* analyzeAddrProjection (lines 262-306).  A walk carries the table, the   *)
(* collected values and the (parent, field) memo; ok is the result.        *)
RECURSIVE AnalyzeUses(_, _, _, _, _), analyzeAddrProjection(_, _, _, _, _)
AnalyzeUses(f, uses, k, locIdx, A) ==
  IF k > Len(uses) THEN [A EXCEPT !.ok = TRUE]
  ELSE
    LET user == InstAt(f, uses[k])
        verdict == UseVerdict(user)
        inner ==
          CASE verdict = "projection" ->
                 analyzeAddrProjection(f, user, locIdx, user.field, A)
            [] verdict = "scope" ->
                 AnalyzeUses(f, Uses(f, user.res), 1, locIdx, A)
            [] verdict = "accept" -> [A EXCEPT !.ok = TRUE]
            [] OTHER -> [A EXCEPT !.ok = FALSE]
    IN  IF inner.ok THEN AnalyzeUses(f, uses, k + 1, locIdx, inner)
        ELSE inner

AnalyzeAddrProjectionWithoutMemo(f, projection, parentLocIdx, fieldNr, A) ==
  IF ~shouldTrackLocation(projection.ty) THEN [A EXCEPT !.ok = TRUE]
  ELSE
    LET subLocIdx == Len(A.locs)
        A1 == [A EXCEPT
                 !.locs = AddSubLocation(f, A.locs, projection.res,
                                         subLocIdx, parentLocIdx)]
        A2 == AnalyzeUses(f, Uses(f, projection.res), 1, subLocIdx, A1)
    IN  IF ~A2.ok THEN A2
        ELSE [A2 EXCEPT
                !.a2l = MapPut(A2.a2l, projection.res, subLocIdx),
                !.collected = Append(A2.collected, projection.res)]

analyzeAddrProjection(f, projection, parentLocIdx, fieldNr, A) ==
  IF ~shouldTrackLocation(projection.ty) THEN [A EXCEPT !.ok = TRUE]
  ELSE
    LET key == <<parentLocIdx, fieldNr>>
        isNew == key \notin DOMAIN A.memo
        subLocIdx == IF isNew THEN Len(A.locs) ELSE A.memo[key]
        A1 == IF isNew
              THEN [A EXCEPT
                      !.memo = MapPut(A.memo, key, subLocIdx),
                      !.locs = AddSubLocation(f, A.locs, projection.res,
                                              subLocIdx, parentLocIdx),
                      !.held = @ \cup {HeldParentLoc(projection.res,
                                                     parentLocIdx)}]
              ELSE A
        A2 == AnalyzeUses(f, Uses(f, projection.res), 1, subLocIdx, A1)
    IN  IF ~A2.ok THEN A2
        ELSE [A2 EXCEPT
                !.a2l = MapPut(A2.a2l, projection.res, subLocIdx),
                !.collected = Append(A2.collected, projection.res),
                !.held = IF DOMAIN A2.memo # DOMAIN A1.memo
                         THEN @ \cup {HeldSubLocIdx(projection.res, key)}
                         ELSE @]

RollBackKeepingMap(A, currentLocIdx) ==
  [locs |-> SubSeq(A.locs, 1, currentLocIdx), a2l |-> A.a2l]

RollBackKeepingLocations(A, currentLocIdx) ==
  [locs |-> A.locs, a2l |-> MapErase(A.a2l, Range(A.collected))]

(* lines 158-162: the root and everything registered for it is dropped.    *)
RollBack(A, currentLocIdx) ==
  [locs |-> SubSeq(A.locs, 1, currentLocIdx),
   a2l |-> MapErase(A.a2l, Range(A.collected))]

(* lines 151-156 of analyzeLocation: the root is pushed and its uses are   *)
(* walked; the result is the state of the walk, with the references held   *)
(* across a growth of their table.                                         *)
WalkOfLocation(f, tbl, loc) ==
  LET currentLocIdx == Len(tbl.locs)
      A0 == [locs |-> Append(tbl.locs, NewLocation(loc, currentLocIdx, -1)),
             a2l |-> tbl.a2l, collected |-> <<>>, memo |-> <<>>, ok |-> TRUE,
             held |-> {}]
  IN  AnalyzeUses(f, Uses(f, loc), 1, currentLocIdx, A0)

(* MemoryLocations::analyzeLocation (lines 145-165) on the table tbl.      *)
analyzeLocation(f, tbl, loc) ==
  IF ~shouldTrackLocation(ValueType(f, loc)) THEN tbl
  ELSE
    LET currentLocIdx == Len(tbl.locs)
        A1 == WalkOfLocation(f, tbl, loc)
    IN  IF ~A1.ok THEN RollBack(A1, currentLocIdx)
        ELSE [locs |-> A1.locs, a2l |-> MapPut(A1.a2l, loc, currentLocIdx)]

RECURSIVE AnalyzeAll(_, _, _, _)
AnalyzeAll(f, tbl, vals, k) ==
  IF k > Len(vals) THEN tbl
  ELSE AnalyzeAll(f, analyzeLocation(f, tbl, vals[k]), vals, k + 1)

TrackedConventions ==
  {"in", "in_constant", "in_guaranteed", "inout", "out"}

ArgumentRootsOfAnyIndirect(f) ==
  SelectSeq([i \in 1 .. Len(f.args) |-> i],
            LAMBDA a : f.args[a].conv \in TrackedConventions \cup {"inout_aliasable"})

(* MemoryLocations::analyzeLocations (lines 113-143): the arguments and    *)
(* the alloc_stacks the walk looks at, in its order.                       *)
ArgumentRoots(f) ==
  SelectSeq([i \in 1 .. Len(f.args) |-> i],
            LAMBDA a : f.args[a].conv \in TrackedConventions)

AllocStacks(f) ==
  LET at == SelectSeq(Positions(f),
                      LAMBDA p : InstAt(f, p).kind = "alloc_stack"
                                 /\ ~InstAt(f, p).dyn)
  IN  [i \in 1 .. Len(at) |-> InstAt(f, at[i]).res]

SingleBlockAllocStacks(f) ==
  SelectSeq(AllocStacks(f), LAMBDA v : allUsesInSameBlock(f, v))

AllocStacksOfAnyPlacement(f) == AllocStacks(f)

MultiBlockAllocStacks(f) ==
  SelectSeq(AllocStacks(f), LAMBDA v : ~allUsesInSameBlock(f, v))

AnalyzeLocationsOfAllAllocStacks(f, tbl) ==
  AnalyzeAll(f, tbl, ArgumentRoots(f) \o AllocStacks(f), 1)

analyzeLocations(f, tbl) ==
  AnalyzeAll(f, tbl, ArgumentRoots(f) \o MultiBlockAllocStacks(f), 1)

-----------------------------------------------------------------------------
(* MemoryDataflow: the dataflow engine.                                    *)

AllOnes(n) == 0 .. (n - 1)

NumBlocks == Len(blockStates)

PredsWithoutSelf(b) == {p \in 1 .. Len(succs) : b \in succs[p] /\ p # b}

(* SILBasicBlock::getPredecessorBlocks, read off the successor lists.      *)
Preds(b) == {p \in 1 .. Len(succs) : b \in succs[p]}

(* MemoryDataflow::MemoryDataflow (lines 341-357): one state per block,    *)
(* all four sets resized to numBits clear bits.                            *)
NewBlockState ==
  [entrySet |-> {}, exitSet |-> {}, genSet |-> {}, killSet |-> {},
   reachableFromEntry |-> FALSE, exitReachable |-> FALSE]

(* The blocks that can be reached from the marked ones along successor     *)
(* edges.                                                                  *)
RECURSIVE MarkedFrom(_, _)
MarkedFrom(cfg, marked) ==
  LET more == marked \cup UNION {cfg[b] : b \in marked}
  IN  IF more = marked THEN marked ELSE MarkedFrom(cfg, more)

MarkedReachable(states, s) ==
  [b \in 1 .. Len(states) |->
     IF b = s THEN [states[b] EXCEPT !.reachableFromEntry = TRUE]
     ELSE states[b]]

MarkWithoutPush(w, todo) ==
  [states |-> [b \in 1 .. Len(w.states) |->
                 IF b \in todo
                 THEN [w.states[b] EXCEPT !.reachableFromEntry = TRUE]
                 ELSE w.states[b]],
   workList |-> w.workList]

(* lines 369-375: the for-loop over the successors of the popped block; a  *)
(* successor that is not marked yet is marked and pushed.                  *)
RECURSIVE PushUnmarked(_, _)
PushUnmarked(w, todo) ==
  IF todo = {} THEN w
  ELSE LET succ == Min(todo)
       IN  IF w.states[succ].reachableFromEntry
           THEN PushUnmarked(w, todo \ {succ})
           ELSE PushUnmarked([states |-> MarkedReachable(w.states, succ),
                              workList |-> Append(w.workList, succ)],
                             todo \ {succ})

(* lines 367-376: one iteration of the while-loop: pop_back_val and the    *)
(* for-loop.                                                               *)
WorkListStep(cfg, w) ==
  PushUnmarked([states |-> w.states,
                workList |-> SubSeq(w.workList, 1, Len(w.workList) - 1)],
               cfg[w.workList[Len(w.workList)]])

RECURSIVE WorkListLoop(_, _)
WorkListLoop(cfg, w) ==
  IF w.workList = <<>> THEN w.states
  ELSE WorkListLoop(cfg, WorkListStep(cfg, w))

(* MemoryDataflow::entryReachabilityAnalysis (lines 359-377): the entry    *)
(* block is marked and pushed, and the worklist is worked off.             *)
entryReachabilityAnalysis(cfg, states) ==
  WorkListLoop(cfg, [states |-> MarkedReachable(states, 1),
                     workList |-> <<1>>])

(* One iteration of the while-loop of entryReachabilityAnalysis a step.    *)
EntryReachabilityStep ==
  /\ pc = "reach"
  /\ workList # <<>>
  /\ \E w \in {WorkListStep(succs, [states |-> blockStates,
                                    workList |-> workList])} :
       /\ blockStates' = w.states
       /\ workList' = w.workList
       /\ pc' = IF w.workList = <<>> THEN "reached" ELSE pc
  /\ UNCHANGED <<fn, dontAbort, tableVars, succs, numBits, seed, cur, changed,
                 firstRound, rounds, bits, failures, asserts, run, firstRun>>

JoinPredecessors(states, b) ==
  states[b].entrySet \cup {i \in AllOnes(numBits) :
                             \E p \in Preds(b) : i \in states[p].exitSet}

MeetPredecessorsExceptEntry(states, b) ==
  IF b = 1 THEN states[b].entrySet
  ELSE {i \in states[b].entrySet : \A p \in Preds(b) : i \in states[p].exitSet}

(* lines 406-410: bits = st.entrySet; bits &= exitSet of each predecessor. *)
MeetPredecessors(states, b) ==
  {i \in states[b].entrySet : \A p \in Preds(b) : i \in states[p].exitSet}

NeedsUpdateInFirstRoundOnly(first, newBits, oldSet) == first

NeedsUpdateWithoutFirstRound(first, newBits, oldSet) == newBits # oldSet

(* line 411: the guard of the update.                                      *)
NeedsUpdate(first, newBits, oldSet) == first \/ newBits # oldSet

(* lines 414-415: bits |= genSet; bits.reset(killSet).                     *)
Transfer(inBits, genSet, killSet) == (inBits \cup genSet) \ killSet

FirstRoundNeverCleared == TRUE

(* line 419: firstRound after a sweep.                                     *)
FirstRoundAfterSweep == FALSE

(* MemoryDataflow::solveDataflowForward (lines 399-421), one block of the  *)
(* for-loop a step; the step of the last block also ends the sweep.        *)
SolveForwardBlock ==
  /\ pc = "solveForward"
  /\ LET st      == blockStates[cur]
         newBits == MeetPredecessors(blockStates, cur)
         upd     == NeedsUpdate(firstRound, newBits, st.entrySet)
         chg     == changed \/ upd
     IN  /\ blockStates' =
              IF upd
              THEN [b \in 1 .. Len(blockStates) |->
                      IF b = cur
                      THEN [st EXCEPT
                              !.entrySet = newBits,
                              !.exitSet = Transfer(newBits, st.genSet,
                                                   st.killSet)]
                      ELSE blockStates[b]]
              ELSE blockStates
         /\ IF cur < NumBlocks
            THEN /\ cur' = cur + 1
                 /\ changed' = chg
                 /\ UNCHANGED <<pc, firstRound, rounds>>
            ELSE /\ cur' = 1
                 /\ changed' = FALSE
                 /\ firstRound' = FirstRoundAfterSweep
                 /\ rounds' = IF rounds < MaxRounds THEN rounds + 1 ELSE rounds
                 /\ pc' = IF chg THEN "solveForward" ELSE "solved"
  /\ UNCHANGED <<fn, dontAbort, tableVars, succs, numBits, seed, bits,
                 failures, asserts, run, firstRun, workList>>

MeetOverPredecessors(states, b) ==
  {i \in states[b].exitSet : \A p \in Preds(b) : i \in states[p].entrySet}

(* lines 430-434: bits = st.exitSet; bits &= entrySet of each successor.   *)
MeetSuccessors(states, b) ==
  {i \in states[b].exitSet : \A s \in succs[b] : i \in states[s].entrySet}

(* MemoryDataflow::solveDataflowBackward (lines 423-445), one block of the *)
(* for-loop over the reversed blockStates a step; the step of the first    *)
(* block also ends the sweep.                                              *)
SolveBackwardBlock ==
  /\ pc = "solveBackward"
  /\ LET st      == blockStates[cur]
         newBits == MeetSuccessors(blockStates, cur)
         upd     == NeedsUpdate(firstRound, newBits, st.exitSet)
         chg     == changed \/ upd
     IN  /\ blockStates' =
              IF upd
              THEN [b \in 1 .. Len(blockStates) |->
                      IF b = cur
                      THEN [st EXCEPT
                              !.exitSet = newBits,
                              !.entrySet = Transfer(newBits, st.genSet,
                                                    st.killSet)]
                      ELSE blockStates[b]]
              ELSE blockStates
         /\ IF cur > 1
            THEN /\ cur' = cur - 1
                 /\ changed' = chg
                 /\ UNCHANGED <<pc, firstRound, rounds>>
            ELSE /\ cur' = NumBlocks
                 /\ changed' = FALSE
                 /\ firstRound' = FirstRoundAfterSweep
                 /\ rounds' = IF rounds < MaxRounds THEN rounds + 1 ELSE rounds
                 /\ pc' = IF chg THEN "solveBackward" ELSE "solvedBackward"
  /\ UNCHANGED <<fn, dontAbort, tableVars, succs, numBits, seed, bits,
                 failures, asserts, run, firstRun, workList>>
-----------------------------------------------------------------------------
(* MemoryLifetimeVerifier.                                                 *)

Table == [locs |-> locations, a2l |-> addr2LocIdx]

(* MemoryLocations::getLocation(addr) and the subLocations of the location *)
(* it finds (MemoryLifetime.h); no bits when addr has no location.         *)
HasLocation(f, tbl, addr) == getLocationIdx(f, tbl.a2l, addr) >= 0

SubLocationsOf(f, tbl, addr) ==
  LET idx == getLocationIdx(f, tbl.a2l, addr)
  IN  IF idx >= 0 /\ idx < Len(tbl.locs)
      THEN tbl.locs[idx + 1].subLocations
      ELSE {}

(* MemoryLocations::setBits and clearBits (MemoryLifetime.h).              *)
setBits(f, tbl, inBits, addr) == inBits \cup SubLocationsOf(f, tbl, addr)

clearBits(f, tbl, inBits, addr) == inBits \ SubLocationsOf(f, tbl, addr)

(* BlockState::genBits and killBits (MemoryLifetime.h): the later effect   *)
(* on a location within a block replaces the earlier one.                  *)
genBits(f, tbl, st, addr) ==
  [st EXCEPT !.killSet = @ \ SubLocationsOf(f, tbl, addr),
             !.genSet = @ \cup SubLocationsOf(f, tbl, addr)]

killBits(f, tbl, st, addr) ==
  [st EXCEPT !.genSet = @ \ SubLocationsOf(f, tbl, addr),
             !.killSet = @ \cup SubLocationsOf(f, tbl, addr)]

(* A failure as require() prints it (lines 532-551): the complaint, the    *)
(* location index and its representative value (-1 and 0: none), and the   *)
(* instruction.  addr is the address whose requirement failed (0: the      *)
(* requirement was on a bit vector only).                                  *)
Failure(tbl, complaint, locationIdx, where, addr) ==
  [complaint |-> complaint,
   locationIdx |-> locationIdx,
   location |-> IF locationIdx >= 0
                THEN tbl.locs[locationIdx + 1].representativeValue ELSE 0,
   where |-> where,
   addr |-> addr]

(* require(const Bits &wrongBits, ...) (lines 553-556).                    *)
RequireNone(tbl, wrongBits, complaint, where, addr) ==
  IF wrongBits = {} THEN <<>>
  ELSE <<Failure(tbl, complaint, Min(wrongBits), where, addr)>>

RequireBitsClearNever(f, tbl, inBits, addr, where) == <<>>

(* requireBitsClear and requireBitsSet (lines 558-572).                    *)
requireBitsClear(f, tbl, inBits, addr, where) ==
  IF HasLocation(f, tbl, addr)
  THEN RequireNone(tbl, inBits \cap SubLocationsOf(f, tbl, addr),
                   "memory is initialized, but shouldn't", where, addr)
  ELSE <<>>

RequireAnyBitSet(f, tbl, inBits, addr, where) ==
  IF HasLocation(f, tbl, addr) /\ SubLocationsOf(f, tbl, addr) \cap inBits = {}
  THEN RequireNone(tbl, SubLocationsOf(f, tbl, addr) \ inBits,
                   "memory is not initialized, but should", where, addr)
  ELSE <<>>

RequireBitsSetNever(f, tbl, inBits, addr, where) == <<>>

requireBitsSet(f, tbl, inBits, addr, where) ==
  IF HasLocation(f, tbl, addr)
  THEN RequireNone(tbl, SubLocationsOf(f, tbl, addr) \ inBits,
                   "memory is not initialized, but should", where, addr)
  ELSE <<>>

(* setBitsOfPredecessor (lines 658-678): the @out arguments of a try_apply *)
(* that ends the single predecessor and has the block as its normal block. *)
setBitsOfPredecessor(f, tbl, inBits, block) ==
  LET preds == PredecessorList(f, block)
  IN  IF Len(preds) # 1 THEN inBits
      ELSE
        LET TAI == Terminator(f, preds[1])
        IN  IF TAI.kind # "try_apply" \/ TAI.succ[1] # block THEN inBits
            ELSE inBits \cup
                 UNION {SubLocationsOf(f, tbl, TAI.ops[i]) :
                          i \in {j \in 1 .. Len(TAI.ops) : TAI.convs[j] = "out"}}

SetFuncOperandBitsOfApply(f, tbl, st, op, convention, isTryApply) ==
  CASE convention \in {"in", "in_constant"} -> killBits(f, tbl, st, op)
    [] convention = "out" -> genBits(f, tbl, st, op)
    [] OTHER -> st

(* setFuncOperandBits (lines 680-704).                                     *)
setFuncOperandBits(f, tbl, st, op, convention, isTryApply) ==
  CASE convention \in {"in", "in_constant"} -> killBits(f, tbl, st, op)
    [] convention = "out" ->
         IF ~isTryApply THEN genBits(f, tbl, st, op) ELSE st
    [] OTHER -> st

RECURSIVE SetOperandsFrom(_, _, _, _, _)
SetOperandsFrom(f, tbl, st, I, k) ==
  IF k > Len(I.ops) THEN st
  ELSE SetOperandsFrom(f, tbl,
         setFuncOperandBits(f, tbl, st, I.ops[k], I.convs[k],
                            I.kind = "try_apply"),
         I, k + 1)

(* The switch of initDataflowInBlock (lines 607-654) for one instruction.  *)
GenKillOf(f, tbl, st, I) ==
  CASE I.kind = "load" ->
         IF I.qual = "take" THEN killBits(f, tbl, st, I.ops[1]) ELSE st
    [] I.kind = "store" -> genBits(f, tbl, st, I.ops[1])
    [] I.kind = "copy_addr" ->
         LET st1 == IF I.take THEN killBits(f, tbl, st, I.ops[1]) ELSE st
         IN  IF I.init THEN genBits(f, tbl, st1, I.ops[2]) ELSE st1
    [] I.kind = "destroy_addr" -> killBits(f, tbl, st, I.ops[1])
    [] I.kind \in {"apply", "try_apply", "yield"} ->
         SetOperandsFrom(f, tbl, st, I, 1)
    [] OTHER -> st

RECURSIVE GenKillFrom(_, _, _, _, _)
GenKillFrom(f, tbl, st, b, k) ==
  IF k > Len(f.blocks[b]) THEN st
  ELSE GenKillFrom(f, tbl, GenKillOf(f, tbl, st, f.blocks[b][k]), b, k + 1)

(* initDataflowInBlock (lines 601-656).                                    *)
initDataflowInBlock(f, tbl, st, b) ==
  GenKillFrom(f, tbl,
              [st EXCEPT !.genSet = setBitsOfPredecessor(f, tbl, @, b)],
              b, 1)

RECURSIVE SetArgumentBits(_, _, _, _, _)
SetArgumentBits(f, tbl, inBits, convs, a) ==
  IF a > Len(f.args) THEN inBits
  ELSE SetArgumentBits(f, tbl,
         IF f.args[a].conv \in convs THEN setBits(f, tbl, inBits, a)
         ELSE inBits,
         convs, a + 1)

AllConventions ==
  {"in", "in_constant", "in_guaranteed", "inout", "out", "inout_aliasable",
   "direct_owned", "direct_unowned", "direct_deallocating",
   "direct_guaranteed"}

InitialBlockStateOfAnyBlock(f, tbl, st, b, nBits) ==
  initDataflowInBlock(f, tbl,
    [st EXCEPT
       !.entrySet = IF b = 1
                    THEN SetArgumentBits(f, tbl, {}, AllConventions \ {"out"}, 1)
                    ELSE AllOnes(nBits),
       !.exitSet = AllOnes(nBits)],
    b)

InitialBlockStateWithEntryAllOnes(f, tbl, st, b, nBits) ==
  LET seeded == [st EXCEPT !.entrySet = AllOnes(nBits),
                           !.exitSet = AllOnes(nBits)]
  IN  IF st.reachableFromEntry THEN initDataflowInBlock(f, tbl, seeded, b)
      ELSE seeded

(* initDataflow (lines 574-599) for block b.                               *)
InitialBlockState(f, tbl, st, b, nBits) ==
  LET seeded ==
        [st EXCEPT
           !.entrySet = IF b = 1
                        THEN SetArgumentBits(f, tbl, {},
                                             AllConventions \ {"out"}, 1)
                        ELSE AllOnes(nBits),
           !.exitSet = AllOnes(nBits)]
  IN  IF st.reachableFromEntry THEN initDataflowInBlock(f, tbl, seeded, b)
      ELSE seeded

(* What checkBlock does with one instruction (lines 772-860), as the list  *)
(* of its requirements and updates on addresses, in the order of the code. *)
(* checkFuncArgument (lines 864-888) gives the entries of one operand.     *)
checkFuncArgument(argumentOp, argumentConvention) ==
  CASE argumentConvention \in {"in", "in_constant"} ->
         <<<<"requireSet", argumentOp>>, <<"clear", argumentOp>>>>
    [] argumentConvention = "out" ->
         <<<<"requireClear", argumentOp>>, <<"set", argumentOp>>>>
    [] argumentConvention \in {"in_guaranteed", "inout", "inout_aliasable"} ->
         <<<<"requireSet", argumentOp>>>>
    [] OTHER -> <<>>

(* The requirements of all operands, then the updates of all operands.     *)
CheckOperandsRequiringFirst(I, k) ==
  LET steps == [i \in 1 .. Len(I.ops) |-> checkFuncArgument(I.ops[i], I.convs[i])]
      RECURSIVE Pick(_, _)
      Pick(i, req) ==
        IF i > Len(I.ops) THEN <<>>
        ELSE SelectSeq(steps[i],
               LAMBDA st : (st[1] \in {"requireSet", "requireClear"}) = req)
             \o Pick(i + 1, req)
  IN  Pick(k, TRUE) \o Pick(k, FALSE)

RECURSIVE CheckOperandsFrom(_, _)
CheckOperandsFrom(I, k) ==
  IF k > Len(I.ops) THEN <<>>
  ELSE checkFuncArgument(I.ops[k], I.convs[k]) \o CheckOperandsFrom(I, k + 1)

(* EndBorrowInst::getSingleOriginalValue: the address a load_borrow read.  *)
SingleOriginalValue(f, borrowed) ==
  IF ~IsArgument(f, borrowed) /\ ValueKind(f, borrowed) = "load_borrow"
  THEN InstAt(f, DefPos(f, borrowed)).ops[1]
  ELSE 0

CheckStepsOf(f, I) ==
  CASE I.kind = "load" ->
         <<<<"requireSet", I.ops[1]>>>> \o
         (IF I.qual = "take" THEN <<<<"clear", I.ops[1]>>>> ELSE <<>>)
    [] I.kind = "store" ->
         (CASE I.qual = "init" ->
                 <<<<"requireClear", I.ops[1]>>, <<"set", I.ops[1]>>>>
            [] I.qual = "assign" -> <<<<"requireSet", I.ops[1]>>>>
            [] OTHER -> <<<<"set", I.ops[1]>>>>)
    [] I.kind = "copy_addr" ->
         <<<<"requireSet", I.ops[1]>>>> \o
         (IF I.take THEN <<<<"clear", I.ops[1]>>>> ELSE <<>>) \o
         (IF I.init
          THEN <<<<"requireClear", I.ops[2]>>, <<"set", I.ops[2]>>>>
          ELSE <<<<"requireSet", I.ops[2]>>>>)
    [] I.kind = "destroy_addr" ->
         <<<<"requireSet", I.ops[1]>>, <<"clear", I.ops[1]>>>>
    [] I.kind = "end_borrow" ->
         (IF SingleOriginalValue(f, I.ops[1]) # 0
          THEN <<<<"requireSet", SingleOriginalValue(f, I.ops[1])>>>>
          ELSE <<>>)
    [] I.kind \in {"apply", "try_apply", "yield"} -> CheckOperandsFrom(I, 1)
    [] I.kind = "debug_value_addr" -> <<<<"requireSet", I.ops[1]>>>>
    [] I.kind = "dealloc_stack" -> <<<<"requireClear", I.ops[1]>>>>
    [] OTHER -> <<>>

ApplyCheckStepRequiringOnly(f, tbl, c, step, where) ==
  CASE step[1] = "requireSet" ->
         [c EXCEPT !.fails = @ \o requireBitsSet(f, tbl, c.bits, step[2], where)]
    [] step[1] = "requireClear" ->
         [c EXCEPT !.fails = @ \o requireBitsClear(f, tbl, c.bits, step[2], where)]
    [] OTHER -> c

(* One requirement or update applied to the running bits and failures.     *)
ApplyCheckStep(f, tbl, c, step, where) ==
  CASE step[1] = "requireSet" ->
         [c EXCEPT !.fails = @ \o requireBitsSet(f, tbl, c.bits, step[2], where)]
    [] step[1] = "requireClear" ->
         [c EXCEPT !.fails = @ \o requireBitsClear(f, tbl, c.bits, step[2], where)]
    [] step[1] = "set" -> [c EXCEPT !.bits = setBits(f, tbl, @, step[2])]
    [] step[1] = "clear" -> [c EXCEPT !.bits = clearBits(f, tbl, @, step[2])]

RECURSIVE ApplyCheckSteps(_, _, _, _, _, _)
ApplyCheckSteps(f, tbl, c, steps, k, where) ==
  IF k > Len(steps) THEN c
  ELSE ApplyCheckSteps(f, tbl, ApplyCheckStep(f, tbl, c, steps[k], where),
                       steps, k + 1, where)

RECURSIVE CheckInstructionsFrom(_, _, _, _, _)
CheckInstructionsFrom(f, tbl, c, b, k) ==
  IF k > Len(f.blocks[b]) THEN c
  ELSE CheckInstructionsFrom(f, tbl,
         ApplyCheckSteps(f, tbl, c, CheckStepsOf(f, f.blocks[b][k]), 1, <<b, k>>),
         b, k + 1)

(* checkBlock (lines 768-862): the bits after the block and the failures   *)
(* of its requirements.                                                    *)
checkBlock(f, tbl, b, inBits) ==
  CheckInstructionsFrom(f, tbl,
    [bits |-> setBitsOfPredecessor(f, tbl, inBits, b), fails |-> <<>>], b, 1)

ExpectedReturnBitsOfOut(f, tbl) == SetArgumentBits(f, tbl, {}, {"out"}, 1)

(* checkFunction, lines 708-725.                                           *)
expectedReturnBits(f, tbl) ==
  SetArgumentBits(f, tbl, {}, {"inout", "in_guaranteed", "out"}, 1)

ExpectedThrowBitsAsAtReturn(f, tbl) ==
  SetArgumentBits(f, tbl, {}, {"inout", "in_guaranteed", "out"}, 1)

expectedThrowBits(f, tbl) ==
  SetArgumentBits(f, tbl, {}, {"inout", "in_guaranteed"}, 1)

NoMismatches(tbl, states, b, preds, k) == <<>>

RECURSIVE MismatchesFromAnyPredecessor(_, _, _, _, _)
MismatchesFromAnyPredecessor(tbl, states, b, preds, k) ==
  IF k > Len(preds) THEN <<>>
  ELSE
    RequireNone(tbl,
      (states[b].entrySet \ states[preds[k]].exitSet) \cup
      (states[preds[k]].exitSet \ states[b].entrySet),
      "lifetime mismatch in predecessors", <<b, 1>>, 0)
    \o MismatchesFromAnyPredecessor(tbl, states, b, preds, k + 1)

(* checkFunction, lines 736-743: the merge check of block b.               *)
RECURSIVE MismatchesFrom(_, _, _, _, _)
MismatchesFrom(tbl, states, b, preds, k) ==
  IF k > Len(preds) THEN <<>>
  ELSE
    (IF states[preds[k]].reachableFromEntry
     THEN RequireNone(tbl,
            (states[b].entrySet \ states[preds[k]].exitSet) \cup
            (states[preds[k]].exitSet \ states[b].entrySet),
            "lifetime mismatch in predecessors", <<b, 1>>, 0)
     ELSE <<>>)
    \o MismatchesFrom(tbl, states, b, preds, k + 1)

(* checkFunction, lines 745-764: the checks at the terminator of block b.  *)
ExitChecks(f, tbl, states, b) ==
  LET term == Terminator(f, b)
      where == <<b, Len(f.blocks[b])>>
      exitSet == states[b].exitSet
  IN  CASE term.kind \in {"return", "unwind"} ->
             RequireNone(tbl, expectedReturnBits(f, tbl) \ exitSet,
               "indirect argument is not alive at function return", where, 0)
             \o
             RequireNone(tbl, exitSet \ expectedReturnBits(f, tbl),
               "memory is initialized at function return but shouldn't", where, 0)
        [] term.kind = "throw" ->
             RequireNone(tbl, expectedThrowBits(f, tbl) \ exitSet,
               "indirect argument is not alive at throw", where, 0)
             \o
             RequireNone(tbl, exitSet \ expectedThrowBits(f, tbl),
               "memory is initialized at throw but shouldn't", where, 0)
        [] OTHER -> <<>>

(* The body of the loop of checkFunction (lines 728-765) for block b: the  *)
(* failures in order, the bits checkBlock ends with, and whether the       *)
(* assert of line 747 is reached and false.                                *)
CheckFunctionBody(f, tbl, states, b, abortOnFailure) ==
  LET c == checkBlock(f, tbl, b, states[b].entrySet)
      early == c.fails \o
               MismatchesFrom(tbl, states, b, PredecessorList(f, b), 1)
  IN  [bits |-> c.bits,
       fails |-> early \o ExitChecks(f, tbl, states, b),
       assertFails |->
         /\ ~(abortOnFailure /\ early # <<>>)
         /\ c.bits # states[b].exitSet
         /\ Terminator(f, b).kind # "try_apply"]

-----------------------------------------------------------------------------
(* MemoryLifetimeVerifier::verify (lines 890-907), step by step.           *)

(* What require() leaves behind (lines 545-550): with the option off the   *)
(* first failure aborts; with it on, all failures are printed.             *)
AbortsWhateverTheOption(newFails) == newFails # <<>>

Aborts(newFails) == ~dontAbort /\ newFails # <<>>

Emitted(newFails) ==
  IF Aborts(newFails) THEN failures \o <<newFails[1]>>
  ELSE failures \o newFails

(* line 893: locations.analyzeLocations(function).                         *)
AnalyzeLocationsStep ==
  /\ pc = "start"
  /\ \E tbl \in {analyzeLocations(fn, Table)} :
       /\ locations' = tbl.locs
       /\ addr2LocIdx' = tbl.a2l
       /\ singleBlockLocations' =
            singleBlockLocations \o SingleBlockAllocStacks(fn)
       /\ pc' = IF Len(tbl.locs) > 0 THEN "dataflow" ELSE "single"
  /\ cur' = 1
  /\ UNCHANGED <<fn, dontAbort, succs, numBits, blockStates, seed, changed,
                 firstRound, rounds, bits, failures, asserts, run, firstRun, workList>>

(* lines 895-896: the MemoryDataflow is constructed and                    *)
(* entryReachabilityAnalysis is run.                                       *)
StartDataflow ==
  /\ pc = "dataflow"
  /\ numBits' = Len(locations)
  /\ blockStates' =
       entryReachabilityAnalysis(succs,
                                 [b \in 1 .. Len(fn.blocks) |-> NewBlockState])
  /\ pc' = "initDataflow"
  /\ UNCHANGED <<fn, dontAbort, tableVars, succs, seed, cur, changed,
                 firstRound, rounds, bits, failures, asserts, run, firstRun, workList>>

(* line 897: initDataflow; the solver is entered after it.                 *)
InitDataflowStep ==
  /\ pc = "initDataflow"
  /\ blockStates' =
       [b \in 1 .. NumBlocks |->
          InitialBlockState(fn, Table, blockStates[b], b, numBits)]
  /\ seed' = blockStates'
  /\ cur' = 1
  /\ changed' = FALSE
  /\ firstRound' = TRUE
  /\ rounds' = 0
  /\ pc' = "solveForward"
  /\ UNCHANGED <<fn, dontAbort, tableVars, succs, numBits, bits, failures,
                 asserts, run, firstRun, workList>>

(* line 899: checkFunction, one block of its loop a step.                  *)
CheckFunctionBlock ==
  /\ pc = "solved"
  /\ fn.blocks # <<>>
  /\ \E r \in {IF blockStates[cur].reachableFromEntry
                THEN CheckFunctionBody(fn, Table, blockStates, cur, ~dontAbort)
                ELSE [bits |-> bits, fails |-> <<>>, assertFails |-> FALSE]} :
       /\ bits' = r.bits
       /\ failures' = Emitted(r.fails)
       /\ asserts' = IF r.assertFails
                     THEN asserts \cup {"bits == st.exitSet"}
                     ELSE asserts
       /\ IF Aborts(r.fails) THEN pc' = "aborted" /\ cur' = cur
          ELSE IF cur < NumBlocks THEN pc' = pc /\ cur' = cur + 1
          ELSE pc' = "single" /\ cur' = 1
  /\ UNCHANGED <<fn, dontAbort, tableVars, succs, numBits, blockStates, seed,
                 changed, firstRound, rounds, run, firstRun, workList>>

(* The single-block locations handled together with                        *)
(* singleBlockLocations[k]: it and the ones after it of the same block.    *)
GroupOfOne(f, vals, k) == k

RECURSIVE GroupEnd(_, _, _)
GroupEnd(f, vals, k) ==
  IF k < Len(vals) /\ DefPos(f, vals[k + 1])[1] = DefPos(f, vals[k])[1]
  THEN GroupEnd(f, vals, k + 1)
  ELSE k

(* lines 902-906 with handleSingleBlockLocations (lines 167-186): the      *)
(* locations of one block are analyzed into the cleared table and the      *)
(* block is checked starting from clear bits.                              *)
SingleBlockStep ==
  /\ pc = "single"
  /\ cur <= Len(singleBlockLocations)
  /\ \E last \in {GroupEnd(fn, singleBlockLocations, cur)} :
     \E tbl \in {AnalyzeAll(fn, EmptyTable,
                            SubSeq(singleBlockLocations, cur, last), 1)} :
     \E c \in {checkBlock(fn, tbl, DefPos(fn, singleBlockLocations[cur])[1],
                          {})} :
       /\ locations' = tbl.locs
       /\ addr2LocIdx' = tbl.a2l
       /\ bits' = c.bits
       /\ failures' = Emitted(c.fails)
       /\ asserts' = IF c.bits # {} /\ ~dontAbort /\ c.fails = <<>>
                     THEN asserts \cup {"bits.none()"}
                     ELSE asserts
       /\ IF Aborts(c.fails) THEN pc' = "aborted" /\ cur' = cur
          ELSE pc' = pc /\ cur' = last + 1
  /\ UNCHANGED <<fn, dontAbort, singleBlockLocations, succs, numBits,
                 blockStates, seed, changed, firstRound, rounds, run,
                 firstRun, workList>>

(* line 185: the table is cleared when all single-block locations are done.*)
SingleBlockDone ==
  /\ pc = "single"
  /\ cur > Len(singleBlockLocations)
  /\ locations' = <<>>
  /\ addr2LocIdx' = <<>>
  /\ pc' = "done"
  /\ UNCHANGED <<fn, dontAbort, singleBlockLocations, engineVars, bits,
                 failures, asserts, run, firstRun, workList>>

SingleBlockLocationsOfUsedVerifier == singleBlockLocations

(* swift::verifyMemoryLifetime (lines 909-912) makes a new verifier for    *)
(* every verification: its table and its list of single-block locations    *)
(* are empty.                                                              *)
SingleBlockLocationsOfNewVerifier == <<>>

(* The function is verified a second time, unchanged and with the option   *)
(* unchanged; what the first verification printed is kept for comparison.  *)
Reverify ==
  /\ pc \in {"done", "aborted"}
  /\ run = 1
  /\ run' = 2
  /\ firstRun' = [failures |-> failures, pc |-> pc]
  /\ pc' = "start"
  /\ locations' = <<>>
  /\ addr2LocIdx' = <<>>
  /\ singleBlockLocations' = SingleBlockLocationsOfNewVerifier
  /\ failures' = <<>>
  /\ asserts' = {}
  /\ bits' = {}
  /\ blockStates' = <<>>
  /\ seed' = <<>>
  /\ numBits' = 0
  /\ cur' = 1
  /\ changed' = FALSE
  /\ firstRound' = TRUE
  /\ rounds' = 0
  /\ workList' = <<>>
  /\ UNCHANGED <<fn, dontAbort, succs>>

-----------------------------------------------------------------------------
(* The functions the verifier is run on.                                   *)

(* A function with one root (an indirect argument, value 1, or an          *)
(* alloc_stack, value 10) and a body of memory operations on the root or   *)
(* on a field of it.  An operation <<op, path>> is expanded into the       *)
(* element_addr instructions of the path and the instruction(s) of op;     *)
(* the values of the j-th operation are numbered from 100 * j.             *)
Root(kind, conv, ty, dyn, multi) ==
  [kind |-> kind, conv |-> conv, ty |-> ty, dyn |-> dyn, multi |-> multi]

ArgRoot(conv, ty) == Root("arg", conv, ty, FALSE, FALSE)
StackRoot(ty)     == Root("alloc", "", ty, FALSE, FALSE)
DynStackRoot(ty)  == Root("alloc", "", ty, TRUE, FALSE)
MultiStackRoot(ty) == Root("alloc", "", ty, FALSE, TRUE)

RootValue(root) == IF root.kind = "arg" THEN 1 ELSE 10

ElementAddrKind(ty) ==
  IF TypeInfo(ty).nominal THEN "struct_element_addr" ELSE "tuple_element_addr"

OpInsts(op, addr, ty, j) ==
  CASE op = "store_init"    -> <<Store("init", addr)>>
    [] op = "store_assign"  -> <<Store("assign", addr)>>
    [] op = "store_trivial" -> <<Store("trivial", addr)>>
    [] op = "load_copy"     -> <<Load("copy", addr)>>
    [] op = "load_take"     -> <<Load("take", addr)>>
    [] op = "destroy"       -> <<DestroyAddr(addr)>>
    [] op = "debug"         -> <<DebugValueAddr(addr)>>
    [] op = "unknown"       -> <<AddressToPointer(addr)>>
    [] op = "access_load"   -> <<BeginAccess(100 * j + 9, addr, ty),
                                 Load("copy", 100 * j + 9),
                                 EndAccess(100 * j + 9)>>
    [] op = "apply_in"      -> <<Apply(<<addr>>, <<"in">>)>>
    [] op = "apply_out"     -> <<Apply(<<addr>>, <<"out">>)>>
    [] op = "apply_inout"   -> <<Apply(<<addr>>, <<"inout">>)>>
    [] op = "project"       -> <<>>

RECURSIVE ExpandAt(_, _, _, _, _, _)
ExpandAt(op, path, addr, ty, j, depth) ==
  IF path = <<>> THEN OpInsts(op, addr, ty, j)
  ELSE LET fieldTy == TypeInfo(ty).fields[Head(path) + 1]
           proj == 100 * j + depth
       IN  <<ElementAddr(ElementAddrKind(ty), proj, addr, Head(path), fieldTy)>>
           \o ExpandAt(op, Tail(path), proj, fieldTy, j, depth + 1)

RECURSIVE ExpandBody(_, _, _)
ExpandBody(root, body, j) ==
  IF j > Len(body) THEN <<>>
  ELSE ExpandAt(body[j][1], body[j][2], RootValue(root), root.ty, j, 1)
       \o ExpandBody(root, body, j + 1)

RootAlloc(root) ==
  IF root.dyn THEN AllocStackDyn(10, root.ty) ELSE AllocStack(10, root.ty)

BuildFunc(root, body) ==
  LET insts == ExpandBody(root, body, 1)
  IN  CASE root.kind = "arg" ->
             [args |-> <<Arg(root.conv, root.ty)>>,
              blocks |-> <<insts \o <<Return>>>>]
        [] root.kind = "alloc" /\ ~root.multi ->
             [args |-> <<>>,
              blocks |-> <<<<RootAlloc(root)>> \o insts
                           \o <<DeallocStack(10), Return>>>>]
        [] OTHER ->
             [args |-> <<>>,
              blocks |-> <<<<RootAlloc(root)>> \o insts \o <<Br(2)>>,
                           <<DeallocStack(10), Return>>>>]

(* The paths to the root and to the fields of a value of the type.         *)
RECURSIVE PathsOf(_)
PathsOf(ty) ==
  {<<>>} \cup
  UNION {{<<i - 1>> \o p : p \in PathsOf(TypeInfo(ty).fields[i])} :
           i \in 1 .. Len(TypeInfo(ty).fields)}

BodyOps ==
  {"store_init", "store_assign", "store_trivial", "load_copy", "load_take",
   "destroy", "unknown", "access_load"}

BodyRoots ==
  {ArgRoot("inout", "S"), ArgRoot("in_guaranteed", "P"), ArgRoot("in", "T"),
   ArgRoot("out", "S"), ArgRoot("inout_aliasable", "S"),
   ArgRoot("inout", "R"), ArgRoot("inout", "Int"),
   StackRoot("S"), DynStackRoot("S"), MultiStackRoot("P"), StackRoot("SI")}

BodiesOf(root) ==
  UNION {[1 .. n -> BodyOps \X PathsOf(root.ty)] : n \in 0 .. MaxBody}

BodyFuncs ==
  UNION {{BuildFunc(root, body) : body \in BodiesOf(root)} : root \in BodyRoots}

(* A conditional: the root is operated on in the then-block, the           *)
(* else-block and the block where both meet.                               *)
BranchOps == {"project", "store_init", "load_copy", "load_take", "destroy"}

BuildBranch(root, thenOp, elseOp, mergeOp) ==
  LET v == RootValue(root)
      isStack == root.kind = "alloc"
  IN  [args |-> IF isStack THEN <<>> ELSE <<Arg(root.conv, root.ty)>>,
       blocks |->
         <<(IF isStack THEN <<RootAlloc(root)>> ELSE <<>>) \o <<CondBr(2, 3)>>,
           OpInsts(thenOp, v, root.ty, 1) \o <<Br(4)>>,
           OpInsts(elseOp, v, root.ty, 2) \o <<Br(4)>>,
           OpInsts(mergeOp, v, root.ty, 3)
             \o (IF isStack THEN <<DeallocStack(v)>> ELSE <<>>) \o <<Return>>>>]

BranchRoots == {MultiStackRoot("T"), ArgRoot("inout", "T")}

BranchFuncs ==
  {BuildBranch(root, t, e, m) :
     root \in BranchRoots, t \in BranchOps, e \in BranchOps, m \in BranchOps}

(* Scenario A: one alloc_stack, in one block, written by an initializing   *)
(* store, read once, destroyed and deallocated.                            *)
ScenarioA ==
  BuildFunc(StackRoot("T"),
            <<<<"store_init", <<>>>>, <<"load_copy", <<>>>>, <<"destroy", <<>>>>>>)

(* Scenario B: the allocation of scenario A, read before the store.        *)
ScenarioB ==
  {BuildFunc(StackRoot("T"),
             <<<<read, <<>>>>, <<"store_init", <<>>>>, <<"destroy", <<>>>>>>) :
     read \in {"load_copy", "load_take"}}

(* Scenario C: an alloc_stack initialized on one branch of a conditional   *)
(* only and read where the branches meet.                                  *)
BranchOnOneSide ==
  {BuildBranch(MultiStackRoot("T"), "store_init", "project", m) :
     m \in {"load_copy", "load_take"}}
  \cup
  {BuildBranch(MultiStackRoot("T"), "project", "store_init", m) :
     m \in {"load_copy", "load_take"}}

(* The function with a call without arguments put first in block b.        *)
LedByCall(f, b) ==
  [args |-> f.args,
   blocks |-> [i \in 1 .. Len(f.blocks) |->
                 IF i = b THEN <<Apply(<<>>, <<>>)>> \o f.blocks[i]
                 ELSE f.blocks[i]]]

ScenarioC == BranchOnOneSide \cup {LedByCall(f, 4) : f \in BranchOnOneSide}

(* Scenario D: an inout argument that is not alive at the return.          *)
ScenarioD ==
  {BuildFunc(ArgRoot("inout", "T"), <<<<op, <<>>>>>>) :
     op \in {"destroy", "load_take", "apply_in"}}
  \cup
  {BuildFunc(ArgRoot("inout", "S"), <<<<"load_take", <<0>>>>, <<"load_copy", <<1>>>>>>),
   BuildFunc(ArgRoot("inout", "S"), <<<<"load_copy", <<0>>>>, <<"destroy", <<1>>>>>>)}

(* Scenario E: an alloc_stack of a struct or tuple with an initialized      *)
(* field when its dealloc_stack is reached; the dealloc_stack is in the    *)
(* block of the alloc_stack or in the next block.                          *)
LeakedFields ==
  {<<<<"store_init", <<0>>>>>>, <<<<"store_init", <<1>>>>>>,
   <<<<"store_init", <<0>>>>, <<"store_init", <<1>>>>>>,
   <<<<"store_init", <<0>>>>, <<"load_copy", <<0>>>>>>}

ScenarioESingleBlock ==
  {BuildFunc(StackRoot(ty), body) : ty \in {"S", "P"}, body \in LeakedFields}

ScenarioEMultiBlock ==
  {BuildFunc(MultiStackRoot(ty), body) : ty \in {"S", "P"}, body \in LeakedFields}

ScenarioE == ScenarioESingleBlock \cup ScenarioEMultiBlock

(* Functions with a return and a throw: an indirect argument is operated   *)
(* on before the return and before the throw.                              *)
ExitFunc(conv, returnOp, throwOp) ==
  [args |-> <<Arg(conv, "T")>>,
   blocks |-> <<<<CondBr(2, 3)>>,
                OpInsts(returnOp, 1, "T", 1) \o <<Return>>,
                OpInsts(throwOp, 1, "T", 2) \o <<Throw>>>>]

ExitFuncs ==
  {ExitFunc(conv, r, t) :
     conv \in {"in", "in_constant", "in_guaranteed", "inout", "out"},
     r \in {"project", "destroy", "store_init"},
     t \in {"project", "destroy", "store_init"}}

(* Functions with blocks that are not reachable from the entry: block 2    *)
(* branches to the reachable block 3 and to itself or to block 4, which    *)
(* branches back to it.                                                    *)
UnreachableFunc(entryOp, deadOp, exitOp, back) ==
  [args |-> <<Arg("inout", "T")>>,
   blocks |-> <<OpInsts(entryOp, 1, "T", 1) \o <<Br(3)>>,
                OpInsts(deadOp, 1, "T", 2) \o <<CondBr(3, back)>>,
                OpInsts(exitOp, 1, "T", 3) \o <<Return>>,
                <<Br(2)>>>>]

UnreachableFuncs ==
  {UnreachableFunc(a, b, c, back) :
     a \in {"project", "load_take"},
     b \in {"project", "destroy", "store_init"},
     c \in {"project", "store_init"},
     back \in {2, 4}}

(* Functions written out: a loop, a block not reachable from the entry,    *)
(* try_apply with an @out argument, calls, copy_addr, borrows, a yield,    *)
(* an untracked root next to a tracked one, and a function with failures  *)
(* in both steps of verify().                                              *)
LoopFunc ==
  [args |-> <<>>,
   blocks |-> <<<<AllocStack(10, "T"), Store("init", 10), Br(2)>>,
                <<Load("copy", 10), CondBr(2, 3)>>,
                <<DestroyAddr(10), DeallocStack(10), Return>>>>]

LoopTakeFunc ==
  [args |-> <<Arg("inout", "T")>>,
   blocks |-> <<<<Br(2)>>,
                <<Load("take", 1), CondBr(2, 3)>>,
                <<Store("init", 1), Return>>>>]

UnreachableBlockFunc ==
  [args |-> <<Arg("in_guaranteed", "T")>>,
   blocks |-> <<<<AllocStack(10, "T"), Br(3)>>,
                <<Load("copy", 10), DestroyAddr(1), AllocStack(20, "T"),
                  Load("take", 20), DeallocStack(20), Br(3)>>,
                <<Load("copy", 1), DeallocStack(10), Return>>>>]

TryApplyFunc ==
  [args |-> <<Arg("inout", "T")>>,
   blocks |-> <<<<AllocStack(10, "T"),
                  TryApply(<<10, 1>>, <<"out", "inout">>, 2, 3)>>,
                <<DestroyAddr(10), DeallocStack(10), Return>>,
                <<DeallocStack(10), Throw>>>>]

TryApplyLeakFunc ==
  [args |-> <<Arg("in", "T")>>,
   blocks |-> <<<<AllocStack(10, "T"),
                  TryApply(<<10>>, <<"out">>, 2, 3)>>,
                <<DeallocStack(10), DestroyAddr(1), Return>>,
                <<DestroyAddr(10), DeallocStack(10), Throw>>>>]

TryApplyOutArgFunc ==
  [args |-> <<Arg("out", "T")>>,
   blocks |-> <<<<TryApply(<<1>>, <<"out">>, 2, 3)>>,
                <<Load("copy", 1), Return>>,
                <<Throw>>>>]

TryApplyFieldFunc ==
  [args |-> <<>>,
   blocks |-> <<<<AllocStack(10, "S"),
                  ElementAddr("struct_element_addr", 20, 10, 0, "T"),
                  ElementAddr("struct_element_addr", 30, 10, 1, "T"),
                  Store("init", 30),
                  TryApply(<<20>>, <<"out">>, 2, 3)>>,
                <<DestroyAddr(10), DeallocStack(10), Return>>,
                <<DestroyAddr(30), DeallocStack(10), Throw>>>>]

CallsFunc ==
  [args |-> <<Arg("in", "T"), Arg("out", "T"), Arg("in_guaranteed", "T")>>,
   blocks |-> <<<<AllocStack(10, "T"),
                  CopyAddr(3, 10, FALSE, TRUE),
                  Apply(<<2, 10, 1, 3>>, <<"out", "in", "in", "in_guaranteed">>),
                  DeallocStack(10), Return>>>>]

CopyFunc ==
  [args |-> <<Arg("in", "T"), Arg("inout", "T")>>,
   blocks |-> <<<<CopyAddr(1, 2, TRUE, FALSE), Br(2)>>,
                <<AllocStack(10, "T"), CopyAddr(2, 10, TRUE, TRUE), Br(3)>>,
                <<CopyAddr(10, 2, FALSE, TRUE), DeallocStack(10), Return>>>>]

BorrowFunc ==
  [args |-> <<Arg("in", "T")>>,
   blocks |-> <<<<LoadBorrow(20, 1), DestroyAddr(1), EndBorrow(20), Return>>>>]

YieldFunc ==
  [args |-> <<Arg("in_guaranteed", "S")>>,
   blocks |-> <<<<ElementAddr("struct_element_addr", 20, 1, 0, "T"),
                  Yield(<<20>>, <<"in_guaranteed">>, 2, 3)>>,
                <<Return>>,
                <<Unwind>>>>]

TwoRootsFunc ==
  [args |-> <<Arg("inout", "S"), Arg("inout", "S")>>,
   blocks |-> <<<<ElementAddr("struct_element_addr", 20, 1, 0, "T"),
                  Load("take", 20),
                  AddressToPointer(1),
                  ElementAddr("struct_element_addr", 30, 2, 1, "T"),
                  Store("init", 30),
                  AllocStack(10, "S"),
                  ElementAddr("struct_element_addr", 40, 10, 0, "T"),
                  Store("trivial", 40),
                  Load("copy", 10),
                  DeallocStack(10),
                  Return>>>>]

ThreeRootsFunc ==
  [args |-> <<Arg("inout", "S"), Arg("inout", "S"), Arg("inout", "T")>>,
   blocks |-> <<<<ElementAddr("struct_element_addr", 20, 1, 0, "T"),
                  Load("copy", 20),
                  ElementAddr("struct_element_addr", 30, 2, 0, "T"),
                  Load("copy", 30),
                  ElementAddr("struct_element_addr", 31, 2, 1, "T"),
                  AddressToPointer(31),
                  Load("copy", 3),
                  Return>>>>]

DoubleEdgeFunc ==
  [args |-> <<Arg("inout", "T")>>,
   blocks |-> <<<<DestroyAddr(1), CondBr(2, 2)>>,
                <<Return>>>>]

DoubleEdgeMismatchFunc ==
  [args |-> <<Arg("inout", "T")>>,
   blocks |-> <<<<CondBr(2, 3)>>,
                <<CondBr(4, 4)>>,
                <<DestroyAddr(1), Br(4)>>,
                <<Return>>,
                <<Br(4)>>>>]

TwoStepsFunc ==
  [args |-> <<Arg("inout", "T")>>,
   blocks |-> <<<<CondBr(2, 3)>>,
                <<Load("take", 1), Br(4)>>,
                <<Br(4)>>,
                <<AllocStack(10, "T"), Load("copy", 10), DeallocStack(10),
                  Return>>>>]

(* An alloc_stack deallocated in its own block with a load of it in        *)
(* another block, which is reachable or not, and an alloc_stack that is    *)
(* not deallocated.                                                        *)
AllocPlacementFuncs ==
  {[args |-> <<>>,
    blocks |-> <<<<AllocStack(10, "T"), Store("init", 10), DestroyAddr(10),
                   DeallocStack(10), IF reach THEN Br(2) ELSE Return>>,
                 <<Load("copy", 10), IF reach THEN Return ELSE Unreachable>>>>] :
     reach \in BOOLEAN}
  \cup
  {[args |-> <<>>,
    blocks |-> <<<<AllocStack(10, "T"), Store("init", 10), Unreachable>>>>]}

(* Two single-block alloc_stacks in the first block, one in the second,    *)
(* next to an indirect argument used in both blocks; the field of the      *)
(* second alloc_stack is destroyed before the dealloc_stack or not.        *)
SingleBlockGroupsFuncs ==
  {[args |-> <<Arg("inout", "T")>>,
    blocks |-> <<<<AllocStack(10, "T"), AllocStack(20, "S"),
                   ElementAddr("struct_element_addr", 21, 20, 0, "T"),
                   Store("init", 21), Load("take", 1)>>
                 \o (IF leak THEN <<>> ELSE <<DestroyAddr(21)>>)
                 \o <<DeallocStack(20), DeallocStack(10), Br(2)>>,
                 <<AllocStack(30, "T"), Store("init", 30), Store("init", 1),
                   Load("take", 30), DeallocStack(30), Return>>>>] :
     leak \in BOOLEAN}

(* A call or a yield with two indirect arguments, each the inout argument  *)
(* of the function (a struct) or its first field.                          *)
CallOrderFunc(kind, ops, convs) ==
  [args |-> <<Arg("inout", "S")>>,
   blocks |->
     CASE kind = "apply" ->
            <<<<ElementAddr("struct_element_addr", 20, 1, 0, "T"),
                Apply(ops, convs), Return>>>>
       [] kind = "try_apply" ->
            <<<<ElementAddr("struct_element_addr", 20, 1, 0, "T"),
                TryApply(ops, convs, 2, 3)>>,
              <<Return>>, <<Throw>>>>
       [] kind = "yield" ->
            <<<<ElementAddr("struct_element_addr", 20, 1, 0, "T"),
                Yield(ops, convs, 2, 3)>>,
              <<Return>>, <<Unwind>>>>]

CallOrderFuncs ==
  {CallOrderFunc(kind, <<a1, a2>>, <<c1, c2>>) :
     kind \in {"apply", "try_apply", "yield"},
     a1 \in {1, 20}, a2 \in {1, 20},
     c1 \in TrackedConventions, c2 \in TrackedConventions}

(* A copy_addr between two indirect struct arguments (or of one to         *)
(* itself), after an instruction that leaves the first argument partly     *)
(* destroyed or the second partly initialized.                             *)
CopyAddrFunc(c1, c2, pre, copy) ==
  [args |-> <<Arg(c1, "S"), Arg(c2, "S")>>,
   blocks |-> <<<<ElementAddr("struct_element_addr", 20, 1, 0, "T"),
                  ElementAddr("struct_element_addr", 30, 2, 0, "T")>>
                \o pre \o <<copy, Return>>>>]

CopyAddrFuncs ==
  {CopyAddrFunc(c1, c2, pre, CopyAddr(src, dst, take, init)) :
     c1 \in {"inout", "out"}, c2 \in {"inout", "out"},
     pre \in {<<>>, <<DestroyAddr(20)>>, <<Store("init", 30)>>},
     src \in {1, 2}, dst \in {1, 2}, take \in BOOLEAN, init \in BOOLEAN}

WrittenFuncs ==
  {LoopFunc, LoopTakeFunc, UnreachableBlockFunc, TryApplyFunc,
   TryApplyLeakFunc, TryApplyOutArgFunc, TryApplyFieldFunc, CallsFunc, CopyFunc, BorrowFunc, YieldFunc,
   TwoRootsFunc, ThreeRootsFunc, DoubleEdgeFunc, DoubleEdgeMismatchFunc, TwoStepsFunc}

(* An argument of every convention next to an alloc_stack with or without  *)
(* dynamic lifetime that is deallocated in its own or in the next block.   *)
ConventionFunc(conv, dyn, multi) ==
  LET alloc == IF dyn THEN AllocStackDyn(10, "S") ELSE AllocStack(10, "S")
      onArg == CASE conv \in {"in", "in_constant"} -> <<Load("take", 1)>>
                 [] conv \in {"in_guaranteed", "inout", "inout_aliasable"} ->
                      <<Load("copy", 1)>>
                 [] conv = "out" -> <<Store("init", 1)>>
                 [] OTHER -> <<>>
      body  == <<alloc, Store("init", 10)>> \o onArg \o <<DestroyAddr(10)>>
  IN  [args |-> <<Arg(conv, "S")>>,
       blocks |-> IF multi
                  THEN <<body \o <<Br(2)>>, <<DeallocStack(10), Return>>>>
                  ELSE <<body \o <<DeallocStack(10), Return>>>>]

ConventionFuncs ==
  {ConventionFunc(conv, dyn, multi) :
     conv \in AllConventions, dyn \in BOOLEAN, multi \in BOOLEAN}

(* A memory operation through a chain of begin_access instructions on an   *)
(* inout argument (or on nothing tracked: an inout_aliasable argument),    *)
(* optionally with a field projection in the middle of the chain.          *)
NestedAccessFunc(conv, depth, viaField, op) ==
  LET chain == [i \in 1 .. depth |->
                  BeginAccess(20 + i, IF i = 1 THEN 1 ELSE 19 + i, "S")]
      top   == IF depth = 0 THEN 1 ELSE 20 + depth
      proj  == IF viaField
               THEN <<ElementAddr("struct_element_addr", 30, top, 0, "T"),
                      BeginAccess(31, 30, "T")>>
               ELSE <<>>
      addr  == IF viaField THEN 31 ELSE top
      ends  == [i \in 1 .. depth |-> EndAccess(21 + depth - i)]
  IN  [args |-> <<Arg(conv, "S")>>,
       blocks |-> <<chain \o proj \o <<op[addr]>>
                    \o (IF viaField THEN <<EndAccess(31)>> ELSE <<>>)
                    \o ends \o <<Return>>>>]

NestedAccessFuncs ==
  {NestedAccessFunc(conv, depth, viaField, op) :
     conv \in {"inout", "inout_aliasable"}, depth \in 0 .. 3,
     viaField \in BOOLEAN,
     op \in {[a \in {1, 21, 22, 23, 31} |-> Load("copy", a)],
             [a \in {1, 21, 22, 23, 31} |-> Load("take", a)],
             [a \in {1, 21, 22, 23, 31} |-> Store("init", a)]}}

(* All fields of a resilient struct inside a tuple are projected and       *)
(* operated on, then the other element of the tuple.                       *)
ResilientFieldFuncs ==
  {BuildFunc(ArgRoot(conv, "PR"),
             <<<<ops[1], <<0, 0>>>>, <<ops[2], <<0, 1>>>>, <<ops[3], <<1>>>>>>) :
     conv \in {"inout", "out"},
     ops \in [1 .. 3 -> {"store_init", "load_copy", "load_take", "destroy"}]}

(* A loop: the first argument is only read, the second is operated on in   *)
(* the loop header, in the loop body before the back edge, or behind the   *)
(* loop.                                                                   *)
LoopPathFunc(conv, inHeader, inBody, inExit) ==
  [args |-> <<Arg("inout", "T"), Arg(conv, "T")>>,
   blocks |-> <<<<Br(2)>>,
                <<Load("copy", 1)>> \o inHeader \o <<CondBr(3, 4)>>,
                inBody \o <<Br(2)>>,
                inExit \o <<Return>>>>]

LoopPathFuncs ==
  {LoopPathFunc(conv, inHeader, inBody, inExit) :
     conv \in {"in", "inout", "out"},
     inHeader \in {<<>>, <<Load("copy", 2)>>},
     inBody \in {<<>>, <<Load("take", 2)>>, <<Store("init", 2)>>,
                 <<Load("take", 2), Store("init", 2)>>},
     inExit \in {<<>>, <<DestroyAddr(2)>>, <<Store("init", 2)>>}}

(* A single-block alloc_stack that is initialized, destroyed and           *)
(* deallocated, with a further instruction on its address (or none) behind *)
(* the dealloc_stack, in the same block.                                   *)
AfterDeallocFuncs ==
  {[args |-> <<>>,
    blocks |-> <<<<AllocStack(10, "T"), Store("init", 10), last,
                   DeallocStack(10)>> \o after \o <<Return>>>>] :
     last \in {DestroyAddr(10), Load("take", 10)},
     after \in {<<>>, <<Store("init", 10)>>, <<Apply(<<10>>, <<"out">>)>>,
                <<Store("init", 10), DestroyAddr(10)>>}}

Funcs ==
  BodyFuncs \cup BranchFuncs \cup {ScenarioA} \cup ScenarioB \cup ScenarioC
  \cup ScenarioD \cup ScenarioE \cup ExitFuncs \cup UnreachableFuncs
  \cup AllocPlacementFuncs \cup SingleBlockGroupsFuncs
  \cup CallOrderFuncs \cup CopyAddrFuncs \cup ConventionFuncs
  \cup NestedAccessFuncs \cup ResilientFieldFuncs \cup LoopPathFuncs
  \cup AfterDeallocFuncs
  \cup WrittenFuncs

-----------------------------------------------------------------------------
(* The verification of a function: MemoryLifetimeVerifier::verify on a     *)
(* new verifier, and once more on the unchanged function.                  *)
Init ==
  /\ fn \in Funcs
  /\ dontAbort \in BOOLEAN
  /\ pc = "start"
  /\ locations = <<>>
  /\ addr2LocIdx = <<>>
  /\ singleBlockLocations = <<>>
  /\ succs = [b \in 1 .. Len(fn.blocks) |-> SuccessorSet(fn, b)]
  /\ numBits = 0
  /\ blockStates = <<>>
  /\ seed = <<>>
  /\ cur = 1
  /\ changed = FALSE
  /\ firstRound = TRUE
  /\ rounds = 0
  /\ bits = {}
  /\ failures = <<>>
  /\ asserts = {}
  /\ run = 1
  /\ firstRun = [failures |-> <<>>, pc |-> "start"]
  /\ workList = <<>>

Next ==
  \/ AnalyzeLocationsStep
  \/ StartDataflow
  \/ InitDataflowStep
  \/ SolveForwardBlock
  \/ CheckFunctionBlock
  \/ SingleBlockStep
  \/ SingleBlockDone
  \/ Reverify

Spec == Init /\ [][Next]_vars

(* The dataflow engine on its own: any CFG, any gen/kill sets, any initial *)
(* entry/exit sets.                                                        *)
BlockStateSet(n) ==
  [entrySet : SUBSET AllOnes(n), exitSet : SUBSET AllOnes(n),
   genSet : SUBSET AllOnes(n), killSet : SUBSET AllOnes(n),
   reachableFromEntry : {FALSE}, exitReachable : {FALSE}]

InitSolve ==
  /\ pc = "solveForward"
  /\ \E nb \in 1 .. MaxBlocks :
       /\ succs \in [1 .. nb -> SUBSET (1 .. nb)]
       /\ numBits \in 1 .. MaxBits
       /\ blockStates \in [1 .. nb -> BlockStateSet(numBits)]
  /\ seed = blockStates
  /\ cur = 1
  /\ changed = FALSE
  /\ firstRound = TRUE
  /\ rounds = 0
  /\ fn = [args |-> <<>>, blocks |-> <<>>]
  /\ dontAbort = FALSE
  /\ locations = <<>>
  /\ addr2LocIdx = <<>>
  /\ singleBlockLocations = <<>>
  /\ bits = {}
  /\ failures = <<>>
  /\ asserts = {}
  /\ run = 1
  /\ firstRun = [failures |-> <<>>, pc |-> "start"]
  /\ workList = <<>>

NextSolve == SolveForwardBlock

SpecSolve == InitSolve /\ [][NextSolve]_vars

SpecSolveFair == SpecSolve /\ WF_vars(NextSolve)

(* solveDataflowBackward on its own: any CFG, any gen/kill sets, any       *)
(* initial entry/exit sets; the first sweep starts at the last block.      *)
InitSolveBackward ==
  /\ pc = "solveBackward"
  /\ \E nb \in 1 .. MaxBlocks :
       /\ succs \in [1 .. nb -> SUBSET (1 .. nb)]
       /\ numBits \in 1 .. MaxBits
       /\ blockStates \in [1 .. nb -> BlockStateSet(numBits)]
  /\ seed = blockStates
  /\ cur = Len(blockStates)
  /\ changed = FALSE
  /\ firstRound = TRUE
  /\ rounds = 0
  /\ fn = [args |-> <<>>, blocks |-> <<>>]
  /\ dontAbort = FALSE
  /\ locations = <<>>
  /\ addr2LocIdx = <<>>
  /\ singleBlockLocations = <<>>
  /\ bits = {}
  /\ failures = <<>>
  /\ asserts = {}
  /\ run = 1
  /\ firstRun = [failures |-> <<>>, pc |-> "start"]
  /\ workList = <<>>

NextSolveBackward == SolveBackwardBlock

SpecSolveBackward ==
  InitSolveBackward /\ [][NextSolveBackward]_vars /\ WF_vars(NextSolveBackward)

(* entryReachabilityAnalysis on its own, on any CFG: the entry block has   *)
(* been marked and pushed (lines 361-365).                                 *)
InitReach ==
  /\ pc = "reach"
  /\ \E nb \in 1 .. MaxReachBlocks :
       /\ succs \in [1 .. nb -> SUBSET (1 .. nb)]
       /\ blockStates = MarkedReachable([b \in 1 .. nb |-> NewBlockState], 1)
  /\ workList = <<1>>
  /\ numBits = 0
  /\ seed = <<>>
  /\ cur = 1
  /\ changed = FALSE
  /\ firstRound = TRUE
  /\ rounds = 0
  /\ fn = [args |-> <<>>, blocks |-> <<>>]
  /\ dontAbort = FALSE
  /\ locations = <<>>
  /\ addr2LocIdx = <<>>
  /\ singleBlockLocations = <<>>
  /\ bits = {}
  /\ failures = <<>>
  /\ asserts = {}
  /\ run = 1
  /\ firstRun = [failures |-> <<>>, pc |-> "start"]

NextReach == EntryReachabilityStep

SpecReach == InitReach /\ [][NextReach]_vars /\ WF_vars(NextReach)

-----------------------------------------------------------------------------
(* Claims about the dataflow engine.                                       *)

Solved == pc = "solved"

(* The intersection of the exit sets of the predecessors of b; all-ones    *)
(* for a block without predecessors.                                       *)
MeetOfPredExits(b) ==
  {i \in AllOnes(numBits) : \A p \in Preds(b) : i \in blockStates[p].exitSet}

(* The solver was entered with the sets as initDataflow leaves them: every *)
(* exit set and every entry set but the entry block's is all-ones.         *)
SeededAllOnes ==
  \A b \in 1 .. Len(seed) :
    /\ seed[b].exitSet = AllOnes(numBits)
    /\ b # 1 => seed[b].entrySet = AllOnes(numBits)

(* C1: when solveDataflowForward has returned, every block's exitSet is    *)
(* (entrySet united with genSet) minus killSet, whatever the CFG, the      *)
(* gen/kill sets and the initial entry/exit sets were.                     *)
C1_ExitIsTransferOfEntry ==
  Solved =>
    \A b \in 1 .. NumBlocks :
      blockStates[b].exitSet =
        (blockStates[b].entrySet \cup blockStates[b].genSet)
          \ blockStates[b].killSet

(* C1 witness: the solver has returned on a CFG with a block that has no   *)
(* predecessor and a gen and a kill set that overlap, after it replaced an *)
(* initial exit set that was not the transfer of the entry set.            *)
C1_Witness ==
  /\ Solved
  /\ NumBlocks = 2
  /\ Preds(2) = {}
  /\ \E b \in 1 .. NumBlocks :
       /\ blockStates[b].genSet \cap blockStates[b].killSet # {}
       /\ seed[b].exitSet # blockStates[b].exitSet

(* C2 as stated: after the solve every non-entry block's entrySet is the   *)
(* intersection of its predecessors' exitSets and the entry block's        *)
(* entrySet is the seeded value.                                           *)
C2_Original ==
  (Solved /\ SeededAllOnes) =>
    /\ \A b \in 2 .. NumBlocks : blockStates[b].entrySet = MeetOfPredExits(b)
    /\ blockStates[1].entrySet = seed[1].entrySet

(* C2 amended: after the solve every non-entry block's entrySet is the     *)
(* intersection of its predecessors' exitSets (all-ones without            *)
(* predecessors); the entry block's entrySet is the seeded value           *)
(* intersected with the exitSets of the entry block's predecessors, hence  *)
(* the seeded value itself when the entry block has no predecessor.        *)
C2_EntryIsMeetOfPredExits ==
  (Solved /\ SeededAllOnes) =>
    /\ \A b \in 2 .. NumBlocks : blockStates[b].entrySet = MeetOfPredExits(b)
    /\ blockStates[1].entrySet = seed[1].entrySet \cap MeetOfPredExits(1)
    /\ Preds(1) = {} => blockStates[1].entrySet = seed[1].entrySet

(* C2 witness: a seeded solve has returned on a CFG whose entry block has  *)
(* a predecessor that does not pass the seeded bit on.                     *)
C2_Witness ==
  /\ Solved /\ SeededAllOnes
  /\ NumBlocks = 2
  /\ 2 \in Preds(1) /\ 1 \in Preds(2)
  /\ seed[1].entrySet # {}
  /\ blockStates[1].entrySet = {}

(* C3: solveDataflowForward terminates: on every CFG, loops, self-loops    *)
(* and unreachable blocks included, and for all gen/kill and initial sets  *)
(* the do-while loop is eventually left.                                   *)
C3_SolveForwardTerminates == <>Solved

(* C3 witness: the loop was left after more than two sweeps on a CFG with  *)
(* a self-loop and a cycle through both blocks.                            *)
C3_Witness ==
  /\ Solved
  /\ rounds > 2
  /\ NumBlocks = 2
  /\ 1 \in succs[1] /\ 2 \in succs[1] /\ 1 \in succs[2]


-----------------------------------------------------------------------------
(* Claims about the verification of a function (Spec).                     *)

(* verify() has returned, or require() has aborted.                        *)
Finished == pc \in {"done", "aborted"}

(* The argument or alloc_stack an address is derived from by projections   *)
(* and begin_access.                                                       *)
RECURSIVE RootOf(_, _)
RootOf(f, v) ==
  IF v = 0 \/ IsArgument(f, v) THEN v
  ELSE IF InstAt(f, DefPos(f, v)).kind \in
            {"struct_element_addr", "tuple_element_addr", "begin_access"}
       THEN RootOf(f, InstAt(f, DefPos(f, v)).ops[1])
       ELSE v

(* An address the location analysis looks at the uses of: a root, a        *)
(* begin_access of such an address, a projection of it of a tracked type.  *)
RECURSIVE IsAnalyzedAddress(_, _)
IsAnalyzedAddress(f, v) ==
  IF IsArgument(f, v) THEN TRUE
  ELSE LET def == InstAt(f, DefPos(f, v))
       IN  CASE def.kind = "alloc_stack" -> TRUE
             [] def.kind = "begin_access" -> IsAnalyzedAddress(f, def.ops[1])
             [] def.kind \in {"struct_element_addr", "tuple_element_addr"} ->
                  shouldTrackLocation(def.ty) /\ IsAnalyzedAddress(f, def.ops[1])
             [] OTHER -> FALSE

AnalyzableUserKinds ==
  {"struct_element_addr", "tuple_element_addr", "begin_access", "load",
   "end_access", "load_borrow", "destroy_addr", "apply", "try_apply",
   "debug_value_addr", "copy_addr", "yield", "dealloc_stack"}

IsUnanalyzableUser(I) ==
  \/ I.kind = "store" /\ I.qual = "trivial"
  \/ I.kind # "store" /\ I.kind \notin AnalyzableUserKinds

(* A root the analysis gives no location whatever its uses are: by its     *)
(* convention, by a dynamic lifetime or by its type.                       *)
IsUntrackedRoot(f, r) ==
  \/ IsArgument(f, r) /\ f.args[r].conv \notin
       {"in", "in_constant", "in_guaranteed", "inout", "out"}
  \/ ~IsArgument(f, r) /\ InstAt(f, DefPos(f, r)).dyn
  \/ ~shouldTrackLocation(ValueType(f, r))

(* The addresses derived from root r that have an unanalyzable use.        *)
UnanalyzablyUsed(f, r) ==
  {v \in UNION {Range(InstAt(f, p).ops) :
                  p \in {q \in Range(Positions(f)) :
                           IsUnanalyzableUser(InstAt(f, q))}} :
     RootOf(f, v) = r}

(* The addresses derived from root r with a use by an instruction of a     *)
(* kind the walk does not handle.                                          *)
UsedByUnsupportedKind(f, r) ==
  {v \in UnanalyzablyUsed(f, r) :
     \E p \in Range(Uses(f, v)) :
       InstAt(f, p).kind \notin AnalyzableUserKinds \cup {"store"}}

(* A root excluded from tracking as the claim words it: an unanalyzable    *)
(* use of the root or of any address derived from it excludes it.          *)
IsExcludedRootAsStated(f, r) ==
  IsUntrackedRoot(f, r) \/ UsedByUnsupportedKind(f, r) # {}

(* A root excluded from tracking: as above, but only the unanalyzable uses *)
(* of addresses whose uses the analysis looks at count.                    *)
IsExcludedRoot(f, r) ==
  \/ IsUntrackedRoot(f, r)
  \/ \E v \in UnanalyzablyUsed(f, r) : IsAnalyzedAddress(f, v)

IsFromExcludedRoot(f, v) == v # 0 /\ IsExcludedRoot(f, RootOf(f, v))

(* C4 as stated: no failure names a location of a root that is untracked   *)
(* or has an unanalyzable use on it or on any of its projections, or rests *)
(* on a requirement on an address derived from such a root.                *)
C4_Original ==
  \A i \in 1 .. Len(failures) :
    /\ failures[i].location # 0 =>
         ~IsExcludedRootAsStated(fn, RootOf(fn, failures[i].location))
    /\ failures[i].addr # 0 =>
         ~IsExcludedRootAsStated(fn, RootOf(fn, failures[i].addr))

(* C4: no failure names a location of an excluded root or rests on a       *)
(* requirement on an address derived from an excluded root, and the table  *)
(* holds no location and no address of an excluded root; an unanalyzable   *)
(* use of a projection of an untracked type does not exclude the root.     *)
C4_ExcludedRootsNeverFail ==
  /\ \A i \in 1 .. Len(failures) :
       /\ ~IsFromExcludedRoot(fn, failures[i].location)
       /\ ~IsFromExcludedRoot(fn, failures[i].addr)
  /\ \A v \in DOMAIN addr2LocIdx : ~IsFromExcludedRoot(fn, v)
  /\ \A i \in 1 .. Len(locations) :
       ~IsFromExcludedRoot(fn, locations[i].representativeValue)

(* A function with a root excluded by an unanalyzable use, one projection  *)
(* of which the analysis had registered before, has been verified next to  *)
(* a tracked root, and failures were printed.                              *)
C4_Witness ==
  /\ pc = "done"
  /\ failures # <<>>
  /\ \E p \in Range(Positions(fn)) :
       /\ InstAt(fn, p).kind = "struct_element_addr"
       /\ IsFromExcludedRoot(fn, InstAt(fn, p).res)
       /\ \E q \in Range(Uses(fn, InstAt(fn, p).res)) :
            InstAt(fn, q).kind = "load" /\ InstAt(fn, q).qual = "take"
       /\ p[2] + 2 <= Len(fn.blocks[p[1]])
       /\ IsUnanalyzableUser(InstAt(fn, <<p[1], p[2] + 2>>))
  /\ \E a \in 1 .. Len(fn.args) : ~IsExcludedRoot(fn, a)

(* The locations all of whose trackable fields have been projected.        *)
CoveredLocations ==
  {p \in 0 .. Len(locations) - 1 :
     locations[p + 1].numFieldsNotCoveredBySubfields = 0}

(* C5: the bit of a location whose counter is 0 is in the subLocations of  *)
(* neither itself nor an ancestor, in no gen or kill set, not in the bits  *)
(* checkBlock starts from (the solved entry set of a reachable block) or   *)
(* ends with, and no failure names the location.                           *)
C5_CoveredParentBitUnused ==
  \A p \in CoveredLocations :
    /\ \A q \in ParentChain(locations, p) : p \notin locations[q + 1].subLocations
    /\ pc \in {"solveForward", "solved"} =>
         \A b \in 1 .. Len(blockStates) :
           /\ p \notin blockStates[b].genSet
           /\ p \notin blockStates[b].killSet
    /\ pc = "solved" =>
         \A b \in 1 .. Len(blockStates) :
           blockStates[b].reachableFromEntry =>
             p \notin blockStates[b].entrySet
    /\ p \notin bits
    /\ \A i \in 1 .. Len(failures) :
         failures[i].location # locations[p + 1].representativeValue

(* A covered struct inside a tuple: its bit is to be absent from itself    *)
(* and from the tuple; the fields were written and read, with a failure.   *)
C5_Witness ==
  /\ pc = "single"
  /\ \E p \in CoveredLocations :
       /\ locations[p + 1].parentIdx >= 0
       /\ locations[p + 1].subLocations # {}
  /\ \E b \in 1 .. Len(blockStates) : blockStates[b].genSet # {}
  /\ bits # {}
  /\ failures # <<>>

MergeRead(f) ==
  CHOOSE p \in Range(Positions(f)) : p[1] = 4 /\ InstAt(f, p).kind = "load"

IsMismatchFailure(failure) ==
  /\ failure.complaint = "lifetime mismatch in predecessors"
  /\ failure.where = <<4, 1>>

IsUninitializedRead(failure, where) ==
  /\ failure.complaint = "memory is not initialized, but should"
  /\ failure.where = where
  /\ failure.addr = 10
  /\ failure.location = 10

(* C7 as stated: scenario C with failures collected ends with exactly one  *)
(* failure, the lifetime mismatch at the first instruction of the merge    *)
(* block.                                                                  *)
C7_Original ==
  (fn \in ScenarioC /\ dontAbort /\ pc = "done") =>
    /\ Len(failures) = 1
    /\ IsMismatchFailure(failures[1])

(* C7: scenario C with failures collected ends with exactly two failures:  *)
(* the uninitialized read at the read of the merge block, then the         *)
(* lifetime mismatch at the first instruction of the merge block.          *)
C7_ReadFailureThenMismatch ==
  (fn \in ScenarioC /\ dontAbort /\ pc = "done") =>
    /\ Len(failures) = 2
    /\ IsUninitializedRead(failures[1], MergeRead(fn))
    /\ IsMismatchFailure(failures[2])

(* Scenario C verified to the end, the read not being the first            *)
(* instruction of the merge block.                                         *)
C7_Witness ==
  /\ fn \in ScenarioC
  /\ dontAbort
  /\ pc = "done"
  /\ run = 1
  /\ MergeRead(fn) # <<4, 1>>

(* C8: the verification of scenario A prints no failure and does not abort.*)
C8_ScenarioAHasNoFailure ==
  fn = ScenarioA => failures = <<>> /\ pc # "aborted"

C8_Witness ==
  /\ fn = ScenarioA
  /\ pc = "done"
  /\ run = 1
  /\ singleBlockLocations = <<10>>

(* C9: the verification of scenario B ends with exactly one failure, the   *)
(* uninitialized read at the load.                                         *)
C9_ScenarioBHasOneReadFailure ==
  (fn \in ScenarioB /\ Finished) =>
    /\ Len(failures) = 1
    /\ IsUninitializedRead(failures[1], <<1, 2>>)
    /\ InstAt(fn, failures[1].where).kind = "load"

C9_Witness ==
  /\ fn \in ScenarioB
  /\ pc = "done"
  /\ run = 1
  /\ failures # <<>>

(* C10: the verification of scenario D ends with exactly one failure: the  *)
(* inout argument is not alive at function return, at the return.          *)
C10_ScenarioDHasOneReturnFailure ==
  (fn \in ScenarioD /\ Finished) =>
    /\ Len(failures) = 1
    /\ failures[1].complaint =
         "indirect argument is not alive at function return"
    /\ failures[1].where = <<1, Len(fn.blocks[1])>>
    /\ InstAt(fn, failures[1].where).kind = "return"
    /\ RootOf(fn, failures[1].location) = 1

C10_Witness ==
  /\ fn \in ScenarioD
  /\ Finished
  /\ run = 1
  /\ fn.args[1].conv = "inout"
  /\ fn.args[1].ty = "S"
  /\ failures # <<>>

-----------------------------------------------------------------------------
(* Scenario E.                                                             *)

DeallocPos(f) ==
  CHOOSE p \in Range(Positions(f)) : InstAt(f, p).kind = "dealloc_stack"

ReturnPos(f) ==
  CHOOSE p \in Range(Positions(f)) : InstAt(f, p).kind = "return"

(* The failure of the requirement of a dealloc_stack: bits of the          *)
(* deallocated location are set.                                           *)
IsLeakAtDealloc(failure) ==
  /\ failure.complaint = "memory is initialized, but shouldn't"
  /\ failure.where = DeallocPos(fn)
  /\ failure.addr = 10
  /\ failure.locationIdx >= 0
  /\ RootOf(fn, failure.location) = 10
  /\ failure.location # 10

IsLeakAtReturn(failure) ==
  /\ failure.complaint = "memory is initialized at function return but shouldn't"
  /\ failure.where = ReturnPos(fn)
  /\ RootOf(fn, failure.location) = 10

(* C11 as stated: the verification of scenario E ends with exactly one     *)
(* failure, the leak at the dealloc_stack.                                 *)
C11_Original ==
  (fn \in ScenarioE /\ Finished) =>
    /\ Len(failures) = 1
    /\ IsLeakAtDealloc(failures[1])

(* C11: the verification of scenario E ends with the leak of a field at    *)
(* the dealloc_stack as its first failure; it is the only failure when     *)
(* the allocation is handled as a single-block location or the first       *)
(* failure aborts, and is followed by one leak at the function return when *)
(* the allocation spans blocks and failures are collected.                 *)
C11_ScenarioELeakAtDealloc ==
  (fn \in ScenarioE /\ Finished) =>
    /\ Len(failures) >= 1
    /\ IsLeakAtDealloc(failures[1])
    /\ (fn \in ScenarioESingleBlock \/ ~dontAbort) => Len(failures) = 1
    /\ (fn \in ScenarioEMultiBlock /\ dontAbort) =>
         Len(failures) = 2 /\ IsLeakAtReturn(failures[2])

(* Scenario E verified to the end with the allocation and its dealloc in   *)
(* one block and both fields initialized.                                  *)
C11_Witness ==
  /\ fn \in ScenarioESingleBlock
  /\ Finished
  /\ run = 1
  /\ Len(failures) = 1
  /\ Cardinality({p \in Range(Positions(fn)) : InstAt(fn, p).kind = "store"}) = 2

-----------------------------------------------------------------------------
(* Gen and kill sets.                                                      *)

(* The dataflow has been initialized: the gen and kill sets are computed.  *)
GenKillComputed == pc \in {"solveForward", "solved"}

(* Functions of one block whose only memory instruction is an assign store *)
(* to an indirect argument or to a field of it.                            *)
AssignOnlyFuncs ==
  {BuildFunc(ArgRoot(conv, "S"), <<<<"store_assign", path>>>>) :
     conv \in {"inout", "out"}, path \in PathsOf("S")}

(* C12 as stated: in a block whose only memory instruction is an assign    *)
(* store to a tracked location the genSet and the killSet are empty and    *)
(* the solved exitSet equals the entrySet.                                 *)
C12_Original ==
  (fn \in AssignOnlyFuncs /\ GenKillComputed) =>
    \A b \in 1 .. NumBlocks :
      /\ blockStates[b].genSet = {}
      /\ blockStates[b].killSet = {}
      /\ Solved => blockStates[b].exitSet = blockStates[b].entrySet

-----------------------------------------------------------------------------
(* try_apply.                                                              *)

(* The @out argument operands of the try_apply that ends block b.          *)
TryApplyOuts(b) ==
  LET TAI == Terminator(fn, b)
  IN  IF TAI.kind # "try_apply" THEN {}
      ELSE {TAI.ops[i] : i \in {j \in 1 .. Len(TAI.ops) : TAI.convs[j] = "out"}}

(* C13: for a try_apply that ends a reachable block, the bits of a tracked *)
(* @out argument are not in the genSet of that block; the normal block     *)
(* starts its gen/kill computation with them in its genSet (they are in    *)
(* its genSet, or in its killSet when the block kills them later); they    *)
(* are not in the genSet of the error block, whose solved entrySet has     *)
(* them only if the try_apply block passed them on.  In the checking pass  *)
(* a read of the argument in the normal block does not fail and a          *)
(* dealloc_stack there does; in the error block it is the other way round. *)
C13_TryApplyOutLiveInNormalBlockOnly ==
  /\ GenKillComputed =>
       \A b \in 1 .. NumBlocks :
         blockStates[b].reachableFromEntry =>
           \A v \in TryApplyOuts(b) :
             \E vBits \in {SubLocationsOf(fn, Table, v)} :
               /\ vBits \cap blockStates[b].genSet = {}
               /\ vBits \subseteq blockStates[Terminator(fn, b).succ[1]].genSet
                    \cup blockStates[Terminator(fn, b).succ[1]].killSet
               /\ vBits \cap blockStates[Terminator(fn, b).succ[2]].genSet = {}
               /\ Solved =>
                    vBits \cap blockStates[Terminator(fn, b).succ[2]].entrySet
                      \subseteq blockStates[b].exitSet
  /\ (fn = TryApplyOutArgFunc /\ GenKillComputed) =>
       /\ blockStates[1].genSet = {}
       /\ blockStates[2].genSet = {0}
       /\ blockStates[3].genSet = {}
       /\ Solved => blockStates[2].entrySet = {} /\ blockStates[3].entrySet = {}
  /\ (fn \in {TryApplyOutArgFunc, TryApplyFunc, TryApplyFieldFunc}) =>
       failures = <<>>
  /\ (fn = TryApplyLeakFunc /\ pc = "done") =>
       /\ failures[1].complaint = "memory is initialized, but shouldn't"
       /\ failures[1].where = <<2, 1>>
       /\ failures[1].addr = 10
       /\ \E i \in 1 .. Len(failures) :
            IsUninitializedRead(failures[i], <<3, 1>>)
       /\ \A i \in 1 .. Len(failures) :
            failures[i].addr = 10 => failures[i].where \in {<<2, 1>>, <<3, 1>>}

(* The try_apply functions verified to the end: one without failures and   *)
(* the one whose normal block leaks the argument and whose error block     *)
(* destroys it.                                                            *)
C13_Witness ==
  /\ run = 1
  /\ pc = "done"
  /\ \/ fn = TryApplyFieldFunc /\ ~dontAbort
     \/ fn = TryApplyLeakFunc /\ Len(failures) >= 2

-----------------------------------------------------------------------------
(* The checks of checkFunction at block boundaries.                        *)

(* checkFunction has gone through block b, or through all blocks and       *)
(* returned.                                                               *)
CheckedBlock(b) ==
  /\ blockStates # <<>>
  /\ \/ pc \in {"single", "done"}
     \/ pc = "solved" /\ b < cur

IsMismatchAt(failure, b) ==
  /\ failure.complaint = "lifetime mismatch in predecessors"
  /\ failure.where = <<b, 1>>

(* The edges into block b, as entries of its predecessor list, between two *)
(* blocks reachable from the entry, the solved exitSet of the predecessor  *)
(* differing from the solved entrySet of b.                                *)
MismatchingEdges(b) ==
  {k \in 1 .. Len(PredecessorList(fn, b)) :
     /\ blockStates[b].reachableFromEntry
     /\ blockStates[PredecessorList(fn, b)[k]].reachableFromEntry
     /\ blockStates[PredecessorList(fn, b)[k]].exitSet # blockStates[b].entrySet}

(* C14: every 'lifetime mismatch in predecessors' failure is anchored at   *)
(* the first instruction of a reachable block with a reachable predecessor *)
(* whose solved exitSet differs from the block's solved entrySet, and      *)
(* names a bit in which they differ; when failures are collected, every    *)
(* block checkFunction has gone through has one such failure for each      *)
(* such edge into it; when the first failure aborts and checkFunction has  *)
(* returned, there is no such edge.                                        *)
C14_MismatchIffReachableAndDifferent ==
  /\ \A i \in 1 .. Len(failures) :
       failures[i].complaint = "lifetime mismatch in predecessors" =>
         \E b \in 1 .. NumBlocks :
           /\ failures[i].where = <<b, 1>>
           /\ \E k \in MismatchingEdges(b) :
                \E p \in {PredecessorList(fn, b)[k]} :
                  failures[i].locationIdx \in
                    (blockStates[p].exitSet \ blockStates[b].entrySet) \cup
                    (blockStates[b].entrySet \ blockStates[p].exitSet)
  /\ \A b \in 1 .. NumBlocks :
       CheckedBlock(b) =>
         IF dontAbort
         THEN Cardinality({i \in 1 .. Len(failures) :
                             IsMismatchAt(failures[i], b)})
                = Cardinality(MismatchingEdges(b))
         ELSE MismatchingEdges(b) = {}

(* Failures were collected to the end in a function with a block that has  *)
(* two mismatching edges from one predecessor, a matching predecessor and  *)
(* an unreachable predecessor whose exitSet differs from the entrySet.     *)
C14_Witness ==
  /\ pc = "done" /\ run = 1 /\ dontAbort
  /\ blockStates # <<>>
  /\ \E b \in 1 .. NumBlocks :
       /\ Cardinality(MismatchingEdges(b)) = 2
       /\ \E p \in Range(PredecessorList(fn, b)) :
            /\ ~blockStates[p].reachableFromEntry
            /\ blockStates[p].exitSet # blockStates[b].entrySet
       /\ \E p \in Range(PredecessorList(fn, b)) :
            /\ blockStates[p].reachableFromEntry
            /\ blockStates[p].exitSet = blockStates[b].entrySet

(* The table is the one the dataflow pass works on and checkFunction has   *)
(* gone through block b.                                                   *)
CheckedInDataflowPass(b) ==
  /\ blockStates # <<>>
  /\ \/ pc = "solved" /\ b < cur
     \/ pc = "single" /\ cur = 1

(* The bits of the function's indirect arguments with one of the           *)
(* conventions.                                                            *)
BitsOfArgs(convs) ==
  UNION {SubLocationsOf(fn, Table, a) :
           a \in {x \in 1 .. Len(fn.args) : fn.args[x].conv \in convs}}

TermPos(b) == <<b, Len(fn.blocks[b])>>

ExpectedAtExit(kind) ==
  IF kind = "throw" THEN BitsOfArgs({"inout", "in_guaranteed"})
  ELSE BitsOfArgs({"inout", "in_guaranteed", "out"})

NotAliveComplaint(kind) ==
  IF kind = "throw" THEN "indirect argument is not alive at throw"
  ELSE "indirect argument is not alive at function return"

LeakAtExitComplaint(kind) ==
  IF kind = "throw" THEN "memory is initialized at throw but shouldn't"
  ELSE "memory is initialized at function return but shouldn't"

ExitComplaints ==
  {NotAliveComplaint(k) : k \in {"return", "throw"}} \cup
  {LeakAtExitComplaint(k) : k \in {"return", "throw"}}

FailuresWith(complaint, where) ==
  {i \in 1 .. Len(failures) :
     failures[i].complaint = complaint /\ failures[i].where = where}

(* Exactly when wrongBits is not empty there is a failure with the         *)
(* complaint at the place, one only, naming one of the wrong bits.         *)
ReportedOnce(wrongBits, complaint, where) ==
  /\ Cardinality(FailuresWith(complaint, where)) =
       (IF wrongBits = {} THEN 0 ELSE 1)
  /\ \A i \in FailuresWith(complaint, where) :
       failures[i].locationIdx \in wrongBits

(* C15: at the return (or unwind) of a reachable block the solved exitSet  *)
(* is compared with the bits of the inout, in_guaranteed and out           *)
(* arguments, at a throw with the bits of the inout and in_guaranteed      *)
(* arguments: a missing bit gives one 'not alive' failure and a bit        *)
(* outside gives one 'is initialized ... but shouldn't' failure, both at   *)
(* the terminator; other terminators and unreachable blocks give none.     *)
(* When the first failure aborts and the block was passed, the exitSet is  *)
(* the expected set.                                                       *)
C15_ExitChecks ==
  \A b \in 1 .. NumBlocks :
    CheckedInDataflowPass(b) =>
      \E kind \in {Terminator(fn, b).kind} :
        IF blockStates[b].reachableFromEntry
             /\ kind \in {"return", "unwind", "throw"}
        THEN
          \E missing \in {ExpectedAtExit(kind) \ blockStates[b].exitSet} :
          \E extra \in {blockStates[b].exitSet \ ExpectedAtExit(kind)} :
            IF dontAbort
            THEN /\ ReportedOnce(missing, NotAliveComplaint(kind), TermPos(b))
                 /\ ReportedOnce(extra, LeakAtExitComplaint(kind), TermPos(b))
            ELSE missing = {} /\ extra = {}
        ELSE
          \A c \in ExitComplaints : FailuresWith(c, TermPos(b)) = {}

(* Failures were collected in a function where an @out argument is alive   *)
(* at the throw, or an inout argument is not, and the return has none.     *)
C15_Witness ==
  /\ pc = "single" /\ cur = 1 /\ run = 1 /\ dontAbort
  /\ fn \in ExitFuncs
  /\ FailuresWith(NotAliveComplaint("return"), <<2, Len(fn.blocks[2])>>) = {}
  /\ FailuresWith(LeakAtExitComplaint("return"), <<2, Len(fn.blocks[2])>>) = {}
  /\ \/ /\ fn.args[1].conv = "out"
        /\ FailuresWith(LeakAtExitComplaint("throw"), <<3, 2>>) # {}
     \/ /\ fn.args[1].conv = "inout"
        /\ FailuresWith(NotAliveComplaint("throw"), <<3, 2>>) # {}

-----------------------------------------------------------------------------
(* Unreachable blocks.                                                     *)

(* The blocks reachable from the entry block.                              *)
ReachableBlocks == MarkedFrom(succs, {1})

(* C16 as stated: no requirement is evaluated on an instruction of a block *)
(* that is not reachable from the entry, in neither pass of verify(): no   *)
(* failure is anchored in such a block.                                    *)
C16_Original ==
  \A i \in 1 .. Len(failures) : failures[i].where[1] \in ReachableBlocks

(* solveDataflowForward on the CFG without the unreachable blocks and      *)
(* their edges: the sweeps of lines 402-420 over the reachable blocks, in  *)
(* block order, the predecessors being the reachable ones.                 *)
RECURSIVE SolveOnReachable(_, _, _, _)
SolveOnReachable(states, k, anyChange, first) ==
  IF k > Len(states)
  THEN IF anyChange THEN SolveOnReachable(states, 1, FALSE, FALSE) ELSE states
  ELSE IF k \notin ReachableBlocks
  THEN SolveOnReachable(states, k + 1, anyChange, first)
  ELSE
    LET newBits == {i \in states[k].entrySet :
                      \A p \in Preds(k) \cap ReachableBlocks :
                        i \in states[p].exitSet}
        upd == first \/ newBits # states[k].entrySet
        newState == [states[k] EXCEPT
                       !.entrySet = newBits,
                       !.exitSet = (newBits \cup states[k].genSet)
                                     \ states[k].killSet]
    IN  SolveOnReachable(
          IF upd
          THEN [b \in 1 .. Len(states) |-> IF b = k THEN newState ELSE states[b]]
          ELSE states,
          k + 1, anyChange \/ upd, first)

(* C17: after initDataflow, during and after the solve, every unreachable  *)
(* block has all-ones entry and exit sets and empty gen and kill sets, and *)
(* the solved entry and exit sets of the reachable blocks are those of the *)
(* solve on the CFG without the unreachable blocks.                        *)
C17_UnreachableBlocksAreIdentity ==
  /\ (GenKillComputed /\ fn.blocks # <<>>) =>
       \A b \in (1 .. NumBlocks) \ ReachableBlocks :
         /\ ~blockStates[b].reachableFromEntry
         /\ blockStates[b].entrySet = AllOnes(numBits)
         /\ blockStates[b].exitSet = AllOnes(numBits)
         /\ blockStates[b].genSet = {}
         /\ blockStates[b].killSet = {}
  /\ (Solved /\ fn.blocks # <<>>) =>
       \E pruned \in {SolveOnReachable(seed, 1, FALSE, TRUE)} :
         \A b \in ReachableBlocks :
           /\ blockStates[b].reachableFromEntry
           /\ blockStates[b].entrySet = pruned[b].entrySet
           /\ blockStates[b].exitSet = pruned[b].exitSet

(* The solve has returned on a function with an unreachable cycle whose    *)
(* block holds a destroy and branches to a reachable block that has the    *)
(* argument's bit in its entry set.                                        *)
C17_Witness ==
  /\ Solved /\ run = 1
  /\ fn \in UnreachableFuncs
  /\ Terminator(fn, 2).succ = <<3, 4>>
  /\ fn.blocks[2][1].kind = "destroy_addr"
  /\ blockStates[3].entrySet = {0}
  /\ numBits = 1

-----------------------------------------------------------------------------
(* The failure policy.                                                     *)

(* What a list of failures says where.                                     *)
ComplaintsOf(fs) == [i \in 1 .. Len(fs) |-> <<fs[i].complaint, fs[i].where>>]

(* The three violated requirements of TwoStepsFunc, in the order verify()  *)
(* evaluates them: the merge check and the exit check of block 4 in the    *)
(* dataflow pass, the load in the single-block pass.                       *)
TwoStepsComplaints ==
  <<<<"lifetime mismatch in predecessors", <<4, 1>>>>,
    <<"indirect argument is not alive at function return", <<4, 4>>>>,
    <<"memory is not initialized, but should", <<4, 2>>>>>>

HasAssignStore(b) ==
  \E k \in 1 .. Len(fn.blocks[b]) :
    fn.blocks[b][k].kind = "store" /\ fn.blocks[b][k].qual = "assign"

(* One step of verify() under the failure policy.                          *)
FailurePolicyStep ==
  /\ ~dontAbort =>
       /\ Len(failures') <= 1
       /\ (pc' = "aborted") = (Len(failures') = 1)
       /\ pc = "aborted" => pc' = "start"
       /\ (fn = TwoStepsFunc /\ pc' = "aborted") =>
            ComplaintsOf(failures') = SubSeq(TwoStepsComplaints, 1, 1)
  /\ dontAbort =>
       /\ pc' # "aborted"
       /\ pc' # "start" =>
            /\ Len(failures) <= Len(failures')
            /\ SubSeq(failures', 1, Len(failures)) = failures
       /\ Len(failures') > Len(failures) =>
            \/ pc = "solved" /\ (cur' = cur + 1 \/ pc' = "single")
            \/ pc = "single" /\ cur' > cur
       /\ (/\ pc = "solved"
           /\ blockStates[cur].reachableFromEntry
           /\ Terminator(fn, cur).kind # "try_apply"
           /\ ~HasAssignStore(cur)) =>
            bits' = blockStates[cur].exitSet
       /\ (fn = TwoStepsFunc /\ pc' = "done") =>
            ComplaintsOf(failures') = TwoStepsComplaints

(* C18: with the option off the first failed requirement is printed and    *)
(* verification ends: there is never more than one failure.  With the      *)
(* option on verification never aborts, a failure printed stays and later  *)
(* ones are appended, the step that printed it goes on to the next block   *)
(* as it does without failure, the bits checkBlock ends with are the       *)
(* solved exit set whether requirements failed or not, and all violated    *)
(* requirements of the function are printed.                               *)
C18_FailurePolicy == [][FailurePolicyStep]_vars

(* All three violated requirements of TwoStepsFunc were collected.         *)
C18_Witness ==
  /\ fn = TwoStepsFunc
  /\ dontAbort
  /\ pc = "done"
  /\ run = 1
  /\ Len(failures) = 3

-----------------------------------------------------------------------------
(* The roll-back of analyzeLocation.                                       *)

(* The lists of roots analyzeLocation is called on, one after the other,   *)
(* starting from an empty table: the arguments and multi-block             *)
(* alloc_stacks of analyzeLocations, and the single-block alloc_stacks of  *)
(* each block.                                                             *)
RootLists ==
  {ArgumentRoots(fn) \o MultiBlockAllocStacks(fn)} \cup
  {SelectSeq(SingleBlockAllocStacks(fn), LAMBDA v : DefPos(fn, v)[1] = b) :
     b \in 1 .. Len(fn.blocks)}

(* The table before the j-th call of a list.                               *)
TableBefore(roots, j) == AnalyzeAll(fn, EmptyTable, SubSeq(roots, 1, j - 1), 1)

(* The root has a use of an unsupported kind: on the root, on a            *)
(* begin_access of it or on a projection of a tracked type.                *)
HasUnsupportedUse(r) ==
  \E v \in UnanalyzablyUsed(fn, r) : IsAnalyzedAddress(fn, v)

(* verify() has analyzed the roots of analyzeLocations.                    *)
AnalyzedLocations == pc = "dataflow" \/ (pc = "single" /\ cur = 1)

(* C19 as stated: a call of analyzeLocation on a root with a use of an     *)
(* unsupported kind, on the root or on any address derived from it,        *)
(* leaves the table and the map as they were.                              *)
C19_Original ==
  AnalyzedLocations =>
    \A roots \in RootLists : \A j \in 1 .. Len(roots) :
      UsedByUnsupportedKind(fn, roots[j]) # {} =>
        analyzeLocation(fn, TableBefore(roots, j), roots[j])
          = TableBefore(roots, j)

(* C19: a call of analyzeLocation on a root with a use of an unsupported   *)
(* kind, on the root, on a begin_access of it or on a projection of a      *)
(* tracked type, leaves the table and the map as they were, and the table  *)
(* verify() goes on with is the one the other roots alone give: no         *)
(* location and no address of the root is left and no index is shifted.    *)
C19_RollBackRestoresTable ==
  AnalyzedLocations =>
    /\ \A roots \in RootLists : \A j \in 1 .. Len(roots) :
         HasUnsupportedUse(roots[j]) =>
           analyzeLocation(fn, TableBefore(roots, j), roots[j])
             = TableBefore(roots, j)
    /\ Table = AnalyzeAll(fn, EmptyTable,
                 SelectSeq(ArgumentRoots(fn) \o MultiBlockAllocStacks(fn),
                           LAMBDA r : ~HasUnsupportedUse(r)), 1)
    /\ \A v \in DOMAIN addr2LocIdx : addr2LocIdx[v] < Len(locations)

(* A root with a registered child and an unsupported use on a second child *)
(* was rolled back between a root with a child and a third root.           *)
C19_Witness ==
  /\ pc = "dataflow" /\ run = 1
  /\ Len(fn.args) = 3
  /\ HasUnsupportedUse(2)
  /\ Len(locations) = 3
  /\ DOMAIN addr2LocIdx = {1, 20, 3}
  /\ addr2LocIdx[3] = 2

-----------------------------------------------------------------------------
(* Stores in the use walk.                                                 *)

(* Functions of one block whose only memory instruction is a store to an   *)
(* @out argument of type S or to a field of it.                            *)
StoreOnlyFuncs(op) ==
  {BuildFunc(ArgRoot("out", "S"), <<<<op, path>>>>) : path \in PathsOf("S")}

StoreDest(f) ==
  InstAt(f, CHOOSE p \in Range(Positions(f)) : InstAt(f, p).kind = "store").ops[1]

(* C20 as stated: a store to a root or to a projection of it, whatever its *)
(* qualifier, leaves the root tracked and creates no location of its own,  *)
(* and a trivial store gens the bits of the location it stores to.         *)
C20_Original ==
  /\ \A op \in {"store_init", "store_assign", "store_trivial"} :
       (fn \in StoreOnlyFuncs(op) /\ AnalyzedLocations) =>
         /\ 1 \in DOMAIN addr2LocIdx
         /\ HasLocation(fn, Table, StoreDest(fn))
         /\ Len(locations) = IF StoreDest(fn) = 1 THEN 1 ELSE 2
  /\ (fn \in StoreOnlyFuncs("store_trivial") /\ GenKillComputed) =>
       /\ blockStates[1].genSet = SubLocationsOf(fn, Table, StoreDest(fn))
       /\ blockStates[1].genSet # {}

-----------------------------------------------------------------------------
(* Field projections and their sub-locations.                              *)

IsProjection(inst) ==
  inst.kind \in {"struct_element_addr", "tuple_element_addr"}

(* The projection instructions whose operand is an address of location k.  *)
ProjectionsOfParent(k) ==
  {p \in Range(Positions(fn)) :
     /\ IsProjection(InstAt(fn, p))
     /\ getLocationIdx(fn, addr2LocIdx, InstAt(fn, p).ops[1]) = k}

TrackedProjectionsOfParent(k) ==
  {p \in ProjectionsOfParent(k) : shouldTrackLocation(InstAt(fn, p).ty)}

ChildrenOf(k) ==
  {c \in 0 .. Len(locations) - 1 : locations[c + 1].parentIdx = k}

(* The counter of location k as initFieldsCounter computes it.             *)
FieldsCounterAtFirstProjection(k) ==
  initFieldsCounter(fn, [locations[k + 1] EXCEPT
                           !.numFieldsNotCoveredBySubfields = -1])
    .numFieldsNotCoveredBySubfields

(* Location k has one child per field the projections projs project, each  *)
(* projection has the index of the child of its field, and the counter of  *)
(* k was decremented once per field.                                       *)
OneChildPerField(k, projs) ==
  LET fields == {InstAt(fn, p).field : p \in projs}
      idx(p) == getLocationIdx(fn, addr2LocIdx, InstAt(fn, p).res)
  IN  /\ Cardinality(ChildrenOf(k)) = Cardinality(fields)
      /\ \A p \in projs : idx(p) \in ChildrenOf(k)
      /\ \A p, q \in projs :
           (InstAt(fn, p).field = InstAt(fn, q).field) <=> (idx(p) = idx(q))
      /\ locations[k + 1].numFieldsNotCoveredBySubfields =
           IF fields = {} THEN -1
           ELSE FieldsCounterAtFirstProjection(k) - Cardinality(fields)

(* C21 as stated: every location of the table has one child per field that *)
(* any struct_element_addr or tuple_element_addr projects from it, whatever*)
(* the type of the field.                                                  *)
C21_Original ==
  \A k \in 0 .. Len(locations) - 1 :
    OneChildPerField(k, ProjectionsOfParent(k))

(* C21: within a registered root, the projections of a tracked type with   *)
(* the same parent location and the same field number have one child       *)
(* index; the table has one location per (parent, field) pair of them and  *)
(* the parent's counter was decremented once per such field, however many  *)
(* projection instructions there are.  A projection of a type that is not  *)
(* tracked has no index, adds no location and leaves the counter alone.    *)
C21_OneChildPerTrackedField ==
  \A k \in 0 .. Len(locations) - 1 :
    /\ OneChildPerField(k, TrackedProjectionsOfParent(k))
    /\ \A p \in ProjectionsOfParent(k) \ TrackedProjectionsOfParent(k) :
         getLocationIdx(fn, addr2LocIdx, InstAt(fn, p).res) = -1

(* A location with two projection instructions of one field, of a tracked  *)
(* type, that share the index of its only child.                           *)
C21_Witness ==
  \E k \in 0 .. Len(locations) - 1 :
    \E p, q \in TrackedProjectionsOfParent(k) :
      /\ p # q
      /\ InstAt(fn, p).field = InstAt(fn, q).field
      /\ addr2LocIdx[InstAt(fn, p).res] = addr2LocIdx[InstAt(fn, q).res]
      /\ Cardinality(ChildrenOf(k)) = 1

-----------------------------------------------------------------------------
(* Single-block and multi-block alloc_stacks.                              *)

(* The alloc_stack has a dealloc_stack, and its dealloc_stacks and all its *)
(* other uses are in its block.                                            *)
DeallocsWithAllUsesInOneBlock(f, asi) ==
  /\ Len(DeallocUses(f, asi)) > 0
  /\ \A i \in 1 .. Len(Uses(f, asi)) : Uses(f, asi)[i][1] = DefPos(f, asi)[1]

(* C22 as stated: an alloc_stack without dynamic lifetime is a             *)
(* single-block location exactly if its dealloc_stacks are in the block of *)
(* all its other uses; otherwise (a dealloc_stack or another use in        *)
(* another block, no dealloc_stack) it is analyzed for the dataflow: it    *)
(* has a location there unless its type is not tracked or it is rolled     *)
(* back.                                                                   *)
C22_Original ==
  AnalyzedLocations =>
    \A v \in Range(AllocStacks(fn)) :
      /\ v \in Range(singleBlockLocations)
           <=> DeallocsWithAllUsesInOneBlock(fn, v)
      /\ (/\ ~DeallocsWithAllUsesInOneBlock(fn, v)
          /\ shouldTrackLocation(ValueType(fn, v))
          /\ ~HasUnsupportedUse(v))
           => v \in DOMAIN addr2LocIdx

-----------------------------------------------------------------------------
(* The second step of verify(): single-block locations.                    *)

BlockOfSingle(k) == DefPos(fn, singleBlockLocations[k])[1]

SingleBlockLocationsIn(b) ==
  SelectSeq(singleBlockLocations, LAMBDA v : DefPos(fn, v)[1] = b)

RootValuesOf(locs) ==
  {locs[i].representativeValue : i \in {j \in 1 .. Len(locs) : locs[j].parentIdx = -1}}

(* A step of the second pass of verify(): the block of the next            *)
(* single-block location was not checked before; the table is now the one  *)
(* analyzeLocation builds from the empty table for the single-block        *)
(* locations of that block; checkBlock ran on the block from clear bits;   *)
(* the dataflow was not touched; and the pass goes on behind the last      *)
(* location of the block, unless the failure aborted.                      *)
SingleBlockPassStep ==
  (pc = "single" /\ cur <= Len(singleBlockLocations)) =>
    LET b == BlockOfSingle(cur)
        tbl == [locs |-> locations', a2l |-> addr2LocIdx']
        c == checkBlock(fn, tbl, b, {})
    IN  /\ \A k \in 1 .. cur - 1 : BlockOfSingle(k) # b
        /\ tbl = AnalyzeAll(fn, EmptyTable, SingleBlockLocationsIn(b), 1)
        /\ RootValuesOf(locations') \subseteq Range(SingleBlockLocationsIn(b))
        /\ bits' = c.bits
        /\ failures' = failures \o
             (IF dontAbort \/ c.fails = <<>> THEN c.fails ELSE <<c.fails[1]>>)
        /\ blockStates' = blockStates /\ rounds' = rounds /\ seed' = seed
        /\ IF ~dontAbort /\ c.fails # <<>> THEN pc' = "aborted"
           ELSE /\ pc' = "single"
                /\ cur' > cur
                /\ \A k \in cur .. cur' - 1 : BlockOfSingle(k) = b
                /\ cur' <= Len(singleBlockLocations) => BlockOfSingle(cur') # b

(* No single-block location, and no address derived from one, has a bit in *)
(* the dataflow of the first pass; the second pass is at the first         *)
(* single-block location of a block; a verification that has returned has  *)
(* been through all single-block locations.                                *)
SingleBlockPassState ==
  /\ pc \in {"dataflow", "initDataflow", "solveForward", "solved"} =>
       \A v \in DOMAIN addr2LocIdx :
         RootOf(fn, v) \notin Range(singleBlockLocations)
  /\ (pc = "single" /\ cur > 1 /\ cur <= Len(singleBlockLocations)) =>
       BlockOfSingle(cur) # BlockOfSingle(cur - 1)
  /\ pc = "done" => cur > Len(singleBlockLocations)

(* C23: for every block with single-block locations, verify() runs         *)
(* checkBlock once on the block, from an all-clear bit vector, with a      *)
(* table built from that block's single-block locations alone, and the     *)
(* dataflow has no bit for them and is not solved for them.  (A failure    *)
(* that aborts ends the pass.)                                             *)
C23_SingleBlockPass == [][SingleBlockPassStep]_vars /\ []SingleBlockPassState

(* The first block's two single-block locations were checked together, the *)
(* third location, of the second block, has been checked with a table of   *)
(* its own.                                                                *)
C23_Witness ==
  /\ fn \in SingleBlockGroupsFuncs
  /\ pc = "single"
  /\ cur = 4
  /\ RootValuesOf(locations) = {30}
  /\ Len(singleBlockLocations) = 3

-----------------------------------------------------------------------------
(* The table during verify().                                              *)

(* The first step of verify() (lines 894-900) is under way.                *)
InFirstStep == pc \in {"dataflow", "initDataflow", "solveForward", "solved"}

(* The second step is at a single-block location.                          *)
InSecondStep == pc = "single" /\ cur <= Len(singleBlockLocations)

(* C24 as stated: once analyzeLocations has built the table, no step of    *)
(* verify() before its last modifies locations or addr2LocIdx.             *)
C24_Original ==
  [][(InFirstStep \/ InSecondStep) => UNCHANGED <<locations, addr2LocIdx>>]_vars

(* C24: during the first step of verify() the table is the one             *)
(* analyzeLocations built from the indirect arguments and the multi-block  *)
(* alloc_stacks, and no step of the dataflow or of checkFunction modifies  *)
(* it; the list of single-block locations is not modified after            *)
(* analyzeLocations.  (The second step clears the table and builds it anew *)
(* for every block with single-block locations.)                           *)
C24_TableFixedInFirstStep ==
  /\ [](InFirstStep =>
          Table = AnalyzeAll(fn, EmptyTable,
                    ArgumentRoots(fn) \o MultiBlockAllocStacks(fn), 1))
  /\ [][InFirstStep => UNCHANGED <<locations, addr2LocIdx>>]_vars
  /\ [][pc \notin {"start", "done", "aborted"} =>
          UNCHANGED singleBlockLocations]_vars

(* checkFunction is at its second block, with a table of two or more       *)
(* locations, in a function that also has single-block locations.          *)
C24_Witness ==
  /\ pc = "solved"
  /\ cur > 1
  /\ Len(locations) > 1
  /\ Len(singleBlockLocations) > 0

-----------------------------------------------------------------------------
(* Arguments of calls and yields.                                          *)

(* What a failure says about which address and which location.             *)
RequirementsOf(fs) ==
  [i \in 1 .. Len(fs) |-> <<fs[i].complaint, fs[i].addr, fs[i].locationIdx>>]

(* The arguments of a call or yield from the k-th on, one after the other  *)
(* against the running bits: in and in_constant require the bits of the    *)
(* argument's location set and clear them, out requires them clear and     *)
(* sets them, inout and in_guaranteed require them set.                    *)
RECURSIVE ArgumentChecksInOrder(_, _, _)
ArgumentChecksInOrder(I, k, c) ==
  IF k > Len(I.ops) THEN c
  ELSE
    LET sub == SubLocationsOf(fn, Table, I.ops[k])
        conv == I.convs[k]
        wrong == IF conv = "out" THEN sub \cap c.bits ELSE sub \ c.bits
        complaint == IF conv = "out"
                     THEN "memory is initialized, but shouldn't"
                     ELSE "memory is not initialized, but should"
        after == CASE conv \in {"in", "in_constant"} -> c.bits \ sub
                   [] conv = "out" -> c.bits \cup sub
                   [] conv \in {"inout", "in_guaranteed"} -> c.bits
    IN  ArgumentChecksInOrder(I, k + 1,
          [bits |-> after,
           fails |-> c.fails \o
             (IF wrong = {} THEN <<>>
              ELSE <<<<complaint, I.ops[k], Min(wrong)>>>>)])

(* checkFunction has checked the first block, which has no alloc_stack.    *)
FirstBlockChecked ==
  /\ blockStates # <<>>
  /\ \/ pc = "solved" /\ cur = 2
     \/ pc = "single" /\ cur = 1 /\ Len(fn.blocks) = 1
     \/ pc = "aborted" /\ cur = 1

FailuresAt(where) ==
  SelectSeq(failures, LAMBDA failure : failure.where = where)

(* C25: the arguments of an apply, try_apply or yield are checked operand  *)
(* by operand, in operand order, against the running bits: in and          *)
(* in_constant require all bits of the argument set and clear them, out    *)
(* requires all clear and sets them, inout and in_guaranteed require all   *)
(* set and change nothing; a later operand is checked against the bits as  *)
(* the earlier operands left them.  (With the option off, the first        *)
(* failure is the last.)                                                   *)
C25_ArgumentsCheckedInOperandOrder ==
  (fn \in CallOrderFuncs /\ FirstBlockChecked) =>
    \E e \in {ArgumentChecksInOrder(fn.blocks[1][2], 1,
                [bits |-> blockStates[1].entrySet, fails |-> <<>>])} :
      /\ RequirementsOf(FailuresAt(<<1, 2>>)) =
           (IF dontAbort \/ e.fails = <<>> THEN e.fails ELSE <<e.fails[1]>>)
      /\ (dontAbort \/ e.fails = <<>>) => bits = e.bits

(* The first operand, an @in argument, has cleared the bit of the field;   *)
(* the second operand, the whole struct as @in_guaranteed, fails on it.    *)
C25_Witness ==
  /\ fn = CallOrderFunc("apply", <<20, 1>>, <<"in", "in_guaranteed">>)
  /\ FirstBlockChecked
  /\ dontAbort
  /\ RequirementsOf(FailuresAt(<<1, 2>>)) =
       <<<<"memory is not initialized, but should", 1, 1>>>>
  /\ bits = {0}

-----------------------------------------------------------------------------
(* Loads, stores, destroy_addr and copy_addr in the checking pass.         *)

ReplayedKinds ==
  {"load", "store", "destroy_addr", "copy_addr", "struct_element_addr",
   "tuple_element_addr", "begin_access", "end_access", "return"}

(* Functions of one block, without alloc_stack, of loads, init and assign  *)
(* stores, destroy_addr and copy_addr on arguments and their fields.       *)
IsReplayFunc(f) ==
  /\ Len(f.blocks) = 1
  /\ \A i \in 1 .. Len(f.blocks[1]) :
       /\ f.blocks[1][i].kind \in ReplayedKinds
       /\ f.blocks[1][i].kind = "store" =>
            f.blocks[1][i].qual \in {"init", "assign"}

(* A requirement on all bits of the location of addr: all set, or all      *)
(* clear.                                                                  *)
AllBitsRequired(c, addr, set) ==
  LET sub == SubLocationsOf(fn, Table, addr)
      wrong == IF set THEN sub \ c.bits ELSE sub \cap c.bits
  IN  [c EXCEPT !.fails = @ \o
         (IF wrong = {} THEN <<>>
          ELSE <<<<IF set THEN "memory is not initialized, but should"
                   ELSE "memory is initialized, but shouldn't",
                   addr, Min(wrong)>>>>)]

BitsSet(c, addr) ==
  [c EXCEPT !.bits = @ \cup SubLocationsOf(fn, Table, addr)]

BitsCleared(c, addr) ==
  [c EXCEPT !.bits = @ \ SubLocationsOf(fn, Table, addr)]

(* The instruction I against the running bits, as C26 has it.  copy_addr:  *)
(* the source first; a destination that is not initialized by the copy is  *)
(* required to be set.                                                     *)
ReplayOf(I, c) ==
  CASE I.kind = "load" ->
         IF I.qual = "take"
         THEN BitsCleared(AllBitsRequired(c, I.ops[1], TRUE), I.ops[1])
         ELSE AllBitsRequired(c, I.ops[1], TRUE)
    [] I.kind = "store" ->
         IF I.qual = "init"
         THEN BitsSet(AllBitsRequired(c, I.ops[1], FALSE), I.ops[1])
         ELSE AllBitsRequired(c, I.ops[1], TRUE)
    [] I.kind = "destroy_addr" ->
         BitsCleared(AllBitsRequired(c, I.ops[1], TRUE), I.ops[1])
    [] I.kind = "copy_addr" ->
         LET src == AllBitsRequired(c, I.ops[1], TRUE)
             taken == IF I.take THEN BitsCleared(src, I.ops[1]) ELSE src
         IN  IF I.init
             THEN BitsSet(AllBitsRequired(taken, I.ops[2], FALSE), I.ops[2])
             ELSE AllBitsRequired(taken, I.ops[2], TRUE)
    [] OTHER -> c

RECURSIVE ReplayFrom(_, _)
ReplayFrom(k, c) ==
  IF k > Len(fn.blocks[1]) THEN c
  ELSE ReplayFrom(k + 1, ReplayOf(fn.blocks[1][k], c))

FailuresBefore(where) ==
  SelectSeq(failures, LAMBDA failure : failure.where # where)

(* C26: checkBlock requires all subLocation bits of the addressed location *)
(* set before a load, an assign store, a destroy_addr and the source of a  *)
(* copy_addr, and all of them clear before an init store and the           *)
(* destination of an initializing copy_addr; an init store and an          *)
(* initializing copy set them, destroy_addr, load [take] and a taking copy *)
(* clear them, a load [copy] and an assign store leave the bits as they    *)
(* are.  (With the option off, the first failure is the last.)             *)
C26_AllBitsRequiredAndUpdated ==
  (IsReplayFunc(fn) /\ FirstBlockChecked) =>
    \E e \in {ReplayFrom(1, [bits |-> blockStates[1].entrySet,
                             fails |-> <<>>])} :
      /\ RequirementsOf(FailuresBefore(TermPos(1))) =
           (IF dontAbort \/ e.fails = <<>> THEN e.fails ELSE <<e.fails[1]>>)
      /\ (dontAbort \/ e.fails = <<>>) => bits = e.bits

(* A struct argument with its first field destroyed is copied to itself by *)
(* an initializing copy_addr: as the source it is not all set, as the      *)
(* destination it is not all clear.                                        *)
C26_Witness ==
  /\ fn = CopyAddrFunc("inout", "inout", <<DestroyAddr(20)>>,
                       CopyAddr(1, 1, FALSE, TRUE))
  /\ FirstBlockChecked
  /\ dontAbort
  /\ RequirementsOf(FailuresAt(<<1, 4>>)) =
       <<<<"memory is not initialized, but should", 1, 1>>,
         <<"memory is initialized, but shouldn't", 1, 0>>>>
  /\ bits = {0, 1, 2, 3}

-----------------------------------------------------------------------------
(* entryReachabilityAnalysis.                                              *)

(* A step of the worklist loop: no block is twice in the worklist, a block *)
(* that is pushed was not marked before, a mark is never taken back, and   *)
(* every block in the worklist is marked.  So no block is pushed twice.    *)
PushedAtMostOnce ==
  pc = "reach" =>
    /\ \A i, j \in 1 .. Len(workList') :
         i # j => workList'[i] # workList'[j]
    /\ \A b \in Range(workList')
                  \ Range(SubSeq(workList, 1, Len(workList) - 1)) :
         ~blockStates[b].reachableFromEntry
    /\ \A b \in 1 .. Len(blockStates) :
         blockStates[b].reachableFromEntry
           => blockStates'[b].reachableFromEntry
    /\ \A b \in Range(workList') : blockStates'[b].reachableFromEntry

MarkedExactlyReachable ==
  pc = "reached" =>
    /\ workList = <<>>
    /\ \A b \in 1 .. Len(blockStates) :
         blockStates[b].reachableFromEntry <=> b \in MarkedFrom(succs, {1})

(* C27: entryReachabilityAnalysis ends; then reachableFromEntry is true    *)
(* for the entry block and the blocks reachable from it along successor    *)
(* edges and false for all other blocks; and no block is pushed to the     *)
(* worklist more than once.                                                *)
C27_EntryReachability ==
  /\ []MarkedExactlyReachable
  /\ [][PushedAtMostOnce]_vars
  /\ <>(pc = "reached")

(* The analysis has ended on a CFG of four blocks with a cycle through the *)
(* entry, a block with two reachable predecessors and a block that only    *)
(* leads into the cycle: the first three blocks are marked, the fourth is  *)
(* not.                                                                    *)
C27_Witness ==
  /\ pc = "reached"
  /\ succs = <<{2, 3}, {3}, {1}, {1}>>
  /\ [b \in 1 .. 4 |-> blockStates[b].reachableFromEntry]
       = <<TRUE, TRUE, TRUE, FALSE>>


(* ---- C28 -------------------------------------------------------------- *)
SolvedBackward == pc = "solvedBackward"

(* The entrySets are all-ones when the solver is entered (the dual of the  *)
(* seeding of initDataflow); the exitSets are whatever the client set.     *)
SeededEntryAllOnes ==
  \A b \in 1 .. NumBlocks : seed[b].entrySet = AllOnes(numBits)

MeetOfSuccEntries(b) ==
  {i \in seed[b].exitSet : \A s \in succs[b] : i \in blockStates[s].entrySet}

BackwardFixpoint ==
  \A b \in 1 .. NumBlocks :
    /\ blockStates[b].entrySet =
         Transfer(blockStates[b].exitSet, blockStates[b].genSet,
                  blockStates[b].killSet)
    /\ blockStates[b].exitSet = MeetOfSuccEntries(b)

(* Whatever the initial sets were: the transfer equation, and an exitSet   *)
(* inside the meet of the successors' entrySets.                           *)
BackwardTransferred ==
  \A b \in 1 .. NumBlocks :
    /\ blockStates[b].entrySet =
         Transfer(blockStates[b].exitSet, blockStates[b].genSet,
                  blockStates[b].killSet)
    /\ blockStates[b].exitSet \subseteq MeetOfSuccEntries(b)

C28_AnySeed == [](SolvedBackward => BackwardFixpoint)


(* ---- C29 -------------------------------------------------------------- *)
RoundsBounded == rounds <= NumBlocks * numBits + 2

(* No step of the solve sets a bit of an entrySet.                         *)
EntryBitsNeverSet ==
  \A b \in 1 .. NumBlocks :
    blockStates'[b].entrySet \subseteq blockStates[b].entrySet

(* The step that makes a round after the first report a change clears a    *)
(* bit of the entrySet of the block it visits.                             *)
LaterChangeClearsBit ==
  (/\ ~firstRound
   /\ ~changed
   /\ changed' \/ (cur = NumBlocks /\ pc' = "solveForward"))
    => /\ blockStates'[cur].entrySet \subseteq blockStates[cur].entrySet
       /\ blockStates'[cur].entrySet # blockStates[cur].entrySet

(* C29: solveDataflowForward runs at most (number of blocks * number of    *)
(* locations) + 2 rounds: no entrySet bit is ever set, and a round after   *)
(* the first reports a change only when it clears a bit of an entrySet.    *)
C29_RoundsBounded ==
  /\ []RoundsBounded
  /\ [][EntryBitsNeverSet /\ LaterChangeClearsBit]_vars

C29_Witness ==
  /\ Solved
  /\ rounds >= 3
  /\ \E b \in 1 .. NumBlocks : blockStates[b].entrySet # seed[b].entrySet


(* ---- C30 -------------------------------------------------------------- *)
IndirectArguments(f) ==
  {a \in 1 .. Len(f.args) :
     f.args[a].conv \in {"in", "in_constant", "in_guaranteed", "inout", "out"}}

OtherArguments(f) == (1 .. Len(f.args)) \ IndirectArguments(f)

AllocStackValues(f, dyn) ==
  {InstAt(f, p).res : p \in {q \in Range(Positions(f)) :
                               /\ InstAt(f, q).kind = "alloc_stack"
                               /\ InstAt(f, q).dyn = dyn}}

(* A call of analyzeLocation on the root leaves the root with an index.    *)
Registers(f, v) == v \in DOMAIN analyzeLocation(f, EmptyTable, v).a2l

(* The step of verify() that is the call of analyzeLocations (line 893).   *)
AnalyzeLocationsReturns == pc = "start" /\ pc' \in {"dataflow", "single"}

Deferred(f) == {v \in AllocStackValues(f, FALSE) : allUsesInSameBlock(f, v)}

NeverIndexed ==
  DOMAIN addr2LocIdx \cap (OtherArguments(fn) \cup AllocStackValues(fn, TRUE)) = {}

(* C30 as stated: the roots in the table analyzeLocations leaves are the   *)
(* indirect arguments and the alloc_stacks without dynamic lifetime on     *)
(* which analyzeLocation succeeds; no other argument and no alloc_stack    *)
(* with dynamic lifetime ever has a location index.                        *)
C30_Original ==
  /\ [][AnalyzeLocationsReturns =>
          RootValuesOf(locations') =
            {v \in IndirectArguments(fn) \cup AllocStackValues(fn, FALSE) :
               Registers(fn, v)}]_vars
  /\ []NeverIndexed

(* C30: analyzeLocations calls analyzeLocation on exactly the arguments    *)
(* with convention in, in_constant, in_guaranteed, inout or out and the    *)
(* alloc_stacks without dynamic lifetime that are not deferred to          *)
(* single-block handling; the deferred ones are put on the list of         *)
(* single-block locations instead.  Arguments of the other conventions     *)
(* and alloc_stacks with dynamic lifetime never have a location index, in  *)
(* either step of verify().                                                *)
C30_RootsOfAnalyzeLocations ==
  /\ [][AnalyzeLocationsReturns =>
          /\ RootValuesOf(locations') =
               {v \in IndirectArguments(fn)
                        \cup (AllocStackValues(fn, FALSE) \ Deferred(fn)) :
                  Registers(fn, v)}
          /\ Range(singleBlockLocations') \ Range(singleBlockLocations)
               \subseteq Deferred(fn)
          /\ Deferred(fn) \subseteq Range(singleBlockLocations')]_vars
  /\ []NeverIndexed
  /\ [](RootValuesOf(locations) \subseteq
          IndirectArguments(fn) \cup AllocStackValues(fn, FALSE))

(* The second step has given a deferred alloc_stack an index in a function *)
(* whose argument has a convention that is not registered.                 *)
C30_Witness ==
  /\ pc = "single"
  /\ OtherArguments(fn) # {}
  /\ Deferred(fn) \cap DOMAIN addr2LocIdx # {}

(* analyzeLocations has registered an in_constant argument and skipped an  *)
(* alloc_stack with dynamic lifetime that is deallocated in another block. *)
C30_WitnessDynamic ==
  /\ pc = "dataflow"
  /\ \E a \in IndirectArguments(fn) :
       fn.args[a].conv = "in_constant" /\ a \in DOMAIN addr2LocIdx
  /\ AllocStackValues(fn, TRUE) # {}
  /\ Len(fn.blocks) > 1


-----------------------------------------------------------------------------
(* getLocationIdx and begin_access.                                        *)

ValuesOf(f) ==
  (1 .. Len(f.args))
    \cup ({InstAt(f, p).res : p \in Range(Positions(f))} \ {0})

(* The number of begin_access instructions between v and its base.         *)
RECURSIVE AccessDepth(_, _)
AccessDepth(f, v) ==
  IF ValueKind(f, v) = "begin_access"
  THEN 1 + AccessDepth(f, InstAt(f, DefPos(f, v)).ops[1])
  ELSE 0

(* C31: in every state of the verification getLocationIdx gives a         *)
(* begin_access the index it gives the accessed address, hence the index   *)
(* of the base of any chain of begin_access instructions; for a value that *)
(* is not a begin_access it gives the entry of addr2LocIdx, and -1 when    *)
(* there is none.                                                          *)
C31_IndexThroughAccesses ==
  \A v \in ValuesOf(fn) :
    IF ValueKind(fn, v) = "begin_access"
    THEN getLocationIdx(fn, addr2LocIdx, v) =
           getLocationIdx(fn, addr2LocIdx, InstAt(fn, DefPos(fn, v)).ops[1])
    ELSE getLocationIdx(fn, addr2LocIdx, v) =
           (IF v \in DOMAIN addr2LocIdx THEN addr2LocIdx[v] ELSE -1)

(* The table has the base of a chain of three begin_access instructions,   *)
(* and a field reached through a fourth one.                               *)
C31_Witness ==
  /\ pc = "solved"
  /\ \E v \in ValuesOf(fn) :
       /\ AccessDepth(fn, v) = 3
       /\ getLocationIdx(fn, addr2LocIdx, v) = 0
  /\ \E v \in ValuesOf(fn) :
       /\ AccessDepth(fn, v) = 1
       /\ getLocationIdx(fn, addr2LocIdx, v) > 0

(* The base of a chain of begin_access instructions has no entry.          *)
C31_WitnessUntracked ==
  /\ pc = "single"
  /\ \E v \in ValuesOf(fn) :
       /\ AccessDepth(fn, v) = 3
       /\ getLocationIdx(fn, addr2LocIdx, v) = -1


-----------------------------------------------------------------------------
(* Resilient aggregates.                                                   *)

IsResilientLocation(k) ==
  LET ty == ValueType(fn, locations[k + 1].representativeValue)
  IN  TypeInfo(ty).nominal /\ TypeInfo(ty).resilient

(* The locations reached from k along parentIdx, k not included.           *)
AncestorsOf(k) == ParentChain(locations, k) \ {k}

(* C32: the bit of a location of a resilient type is in its own            *)
(* subLocations and in the subLocations of all its ancestors, in every     *)
(* state of the verification, whatever fields of it have locations.        *)
C32_ResilientNeverCovered ==
  \A k \in 0 .. Len(locations) - 1 :
    IsResilientLocation(k) =>
      \A a \in ParentChain(locations, k) : k \in locations[a + 1].subLocations

(* Both stored properties of a resilient struct that is an element of a    *)
(* tracked tuple have locations.                                           *)
C32_Witness ==
  /\ pc = "solved"
  /\ \E k \in 0 .. Len(locations) - 1 :
       /\ IsResilientLocation(k)
       /\ AncestorsOf(k) # {}
       /\ Cardinality(ChildrenOf(k)) = 2


-----------------------------------------------------------------------------
(* The assertion of checkFunction (line 747).                              *)

(* C33 as stated: in no run, aborting or collecting, does checkFunction    *)
(* reach a reachable block without a try_apply terminator whose replayed   *)
(* bits differ from its solved exitSet.                                    *)
C33_Original == "bits == st.exitSet" \notin asserts

(* Where the assertion is false: only with failures collected, in a        *)
(* function with an assign store.                                          *)
C33_FalseOnlyAfterAssignStore ==
  "bits == st.exitSet" \in asserts =>
    /\ dontAbort
    /\ \E p \in Range(Positions(fn)) :
         InstAt(fn, p).kind = "store" /\ InstAt(fn, p).qual = "assign"


-----------------------------------------------------------------------------
(* The seeding of the solve.                                               *)

(* initDataflow has run and the table it read is still there.              *)
Seeded == pc \in {"solveForward", "solved"}

(* The tracked arguments that are not @out, and the bits setBits gives     *)
(* them.                                                                   *)
LiveArgumentsAtEntry ==
  {a \in 1 .. Len(fn.args) : a \in DOMAIN addr2LocIdx /\ fn.args[a].conv # "out"}

BitsOfLiveArguments ==
  UNION {locations[addr2LocIdx[a] + 1].subLocations : a \in LiveArgumentsAtEntry}

(* C34: as initDataflow leaves the blocks, the entrySet of the entry block *)
(* is the subLocations of the tracked arguments that are not @out, every   *)
(* other entrySet and every exitSet is all-ones, and a block that is not   *)
(* reachable from the entry has empty gen and kill sets.                   *)
C34_SeedOfTheSolve ==
  Seeded =>
    /\ seed[1].entrySet = BitsOfLiveArguments
    /\ \A b \in 2 .. Len(seed) : seed[b].entrySet = AllOnes(numBits)
    /\ \A b \in 1 .. Len(seed) :
         /\ seed[b].exitSet = AllOnes(numBits)
         /\ b \notin MarkedFrom(succs, {1}) =>
              seed[b].genSet = {} /\ seed[b].killSet = {}
         /\ seed[b].genSet = blockStates[b].genSet
         /\ seed[b].killSet = blockStates[b].killSet

(* A function with an @out argument and a live one among its locations,    *)
(* a reachable block with a gen set and an unreachable block that has      *)
(* an instruction that would gen or kill.                                  *)
C34_Witness ==
  /\ Seeded
  /\ numBits > 1
  /\ seed[1].entrySet # {} /\ seed[1].entrySet # AllOnes(numBits)
  /\ \E b \in 1 .. Len(seed) :
       /\ b \notin MarkedFrom(succs, {1})
       /\ \E i \in 1 .. Len(fn.blocks[b]) :
            fn.blocks[b][i].kind \in {"store", "destroy_addr"}

C34_WitnessGen ==
  /\ Seeded
  /\ \E a \in 1 .. Len(fn.args) : fn.args[a].conv = "out" /\ a \in DOMAIN addr2LocIdx
  /\ \E b \in 1 .. Len(seed) : seed[b].genSet # {}
  /\ \E b \in 1 .. Len(seed) : seed[b].killSet # {}


-----------------------------------------------------------------------------
(* The solved sets and the paths of the function.                          *)

(* The pairs <<B, v>> such that some path of the CFG from the entry block  *)
(* arrives at block B with bit i set (v) or clear (~v), when every block   *)
(* on the path adds its genSet and removes its killSet.                    *)
RECURSIVE ArrivalsFrom(_, _)
ArrivalsFrom(i, seen) ==
  LET next == UNION {{<<s, (a[2] \/ i \in blockStates[a[1]].genSet)
                              /\ i \notin blockStates[a[1]].killSet>> :
                         s \in succs[a[1]]} : a \in seen}
  IN  IF next \subseteq seen THEN seen ELSE ArrivalsFrom(i, seen \cup next)

Arrivals(i) == ArrivalsFrom(i, {<<1, i \in seed[1].entrySet>>})

(* C35: when the solve of a verification has returned, a bit is in the     *)
(* entrySet of a reachable block exactly if it is set on arrival at the    *)
(* block along every path from the entry block.                            *)
C35_EntryIsMeetOverPaths ==
  pc = "solved" =>
    \A b \in MarkedFrom(succs, {1}) : \A i \in AllOnes(numBits) :
      i \in blockStates[b].entrySet <=> <<b, FALSE>> \notin Arrivals(i)

(* The solve has returned on a function with a loop, where a bit arrives   *)
(* set along one path and clear along another and where a bit is set on    *)
(* all paths to a block after the entry.                                   *)
C35_Witness ==
  /\ pc = "solved"
  /\ rounds > 2
  /\ \E b \in MarkedFrom(succs, {1}) : \E i \in AllOnes(numBits) :
       <<b, FALSE>> \in Arrivals(i) /\ <<b, TRUE>> \in Arrivals(i)
  /\ \E b \in MarkedFrom(succs, {1}) \ {1} : blockStates[b].entrySet # {}


-----------------------------------------------------------------------------
(* The bit sets of the locations.                                          *)

(* Location k and the locations below it.                                  *)
DescendantsOf(k) ==
  {d \in 0 .. Len(locations) - 1 : k \in ParentChain(locations, d)}

NotFullyCovered(k) == locations[k + 1].numFieldsNotCoveredBySubfields # 0

(* C36: in every table of the verification, subLocations of a location is  *)
(* the set of the indices of the location and its descendants whose        *)
(* counter is not zero, selfAndParents is the set of the indices of the    *)
(* location and its ancestors, and a child has a larger index than its     *)
(* parent (the index of a location is its position in the table, which is  *)
(* its bit).                                                               *)
C36_BitSetsOfLocations ==
  \A k \in 0 .. Len(locations) - 1 :
    /\ locations[k + 1].subLocations =
         {d \in DescendantsOf(k) : NotFullyCovered(d)}
    /\ locations[k + 1].selfAndParents = ParentChain(locations, k)
    /\ locations[k + 1].parentIdx < k
    /\ locations[k + 1].parentIdx >= -1

(* A table with a location that has a grandchild, a fully covered          *)
(* location and a second root.                                             *)
C36_Witness ==
  /\ pc = "solved"
  /\ \E k \in 0 .. Len(locations) - 1 :
       /\ locations[k + 1].parentIdx = -1
       /\ \E d \in DescendantsOf(k) :
            /\ locations[d + 1].parentIdx \notin {-1, k}
            /\ ~NotFullyCovered(locations[d + 1].parentIdx)


-----------------------------------------------------------------------------
(* The entry sets during the solve.                                        *)

(* C37: whatever the initial sets, no step of solveDataflowForward gives   *)
(* a block an entrySet that is not a subset of the one it had, and on      *)
(* return the entrySet of every block, the entry block included, is a      *)
(* subset of its initial entrySet and of the exitSet of each of its        *)
(* predecessors.                                                           *)
C37_EntrySetsOnlyShrink ==
  /\ [][\A b \in 1 .. NumBlocks :
          blockStates'[b].entrySet \subseteq blockStates[b].entrySet]_vars
  /\ [](Solved =>
          \A b \in 1 .. NumBlocks :
            /\ blockStates[b].entrySet \subseteq seed[b].entrySet
            /\ \A p \in 1 .. NumBlocks :
                 b \in succs[p] =>
                   blockStates[b].entrySet \subseteq blockStates[p].exitSet)

(* The solve has returned with a smaller entrySet for the entry block,     *)
(* which has a predecessor, and for a block that is its own predecessor.   *)
C37_Witness ==
  /\ Solved
  /\ NumBlocks = 2
  /\ 1 \in succs[2] /\ 2 \in succs[2]
  /\ \A b \in 1 .. 2 : blockStates[b].entrySet # seed[b].entrySet


-----------------------------------------------------------------------------
(* The two passes of verify().                                             *)

(* checkFunction is running on the table of the first step.                *)
InDataflowPass == pc \in {"dataflow", "initDataflow", "solveForward", "solved"}

(* A step of the second pass: the single-block locations of one block.     *)
SingleBlockPassChecks ==
  pc = "single" /\ cur <= Len(singleBlockLocations) /\ pc' \in {"single", "aborted"}

NewFailures == SubSeq(failures', Len(failures) + 1, Len(failures'))

SameRequirement(f1, f2) ==
  f1.where = f2.where /\ f1.complaint = f2.complaint /\ f1.addr = f2.addr

(* C38: the roots in the table of the dataflow pass are never single-block *)
(* locations; the roots in a table of the single-block pass are            *)
(* single-block locations of the checked block, none of them an argument   *)
(* or a multi-block alloc_stack; and the single-block pass reports no      *)
(* requirement (instruction, complaint and address) that was reported      *)
(* before in the same verification.                                        *)
C38_OnePassPerLocation ==
  /\ [](InDataflowPass =>
          RootValuesOf(locations) \cap Range(singleBlockLocations) = {})
  /\ [][SingleBlockPassChecks =>
          /\ RootValuesOf(locations') \subseteq Range(singleBlockLocations)
          /\ RootValuesOf(locations') \cap
               (Range(ArgumentRoots(fn)) \cup
                {v \in Range(AllocStacks(fn)) : ~allUsesInSameBlock(fn, v)}) = {}
          /\ \A i \in 1 .. Len(NewFailures) : \A j \in 1 .. Len(failures) :
               ~SameRequirement(NewFailures[i], failures[j])]_vars

(* With failures collected, both passes have reported a failure in the     *)
(* same block: the first on an argument, the second on a single-block      *)
(* alloc_stack.                                                            *)
C38_Witness ==
  /\ pc = "done"
  /\ \E i \in 1 .. Len(failures) : \E j \in 1 .. Len(failures) :
       /\ i < j
       /\ failures[i].where[1] = failures[j].where[1]
       /\ failures[i].location \in 1 .. Len(fn.args)
       /\ failures[j].location \in Range(singleBlockLocations)


-----------------------------------------------------------------------------
(* The assertion of the single-block pass (line 905).                      *)

(* C39 as stated: in abort-on-failure mode the bits are all clear whenever *)
(* the check of a block in the single-block pass completes.                *)
C39_Original == ~dontAbort => "bits.none()" \notin asserts

(* An instruction behind the dealloc_stack of a single-block location, in  *)
(* the same block, has the location's address as an operand.               *)
UsedAfterDealloc ==
  \E k \in 1 .. Len(singleBlockLocations) :
    \E d \in Range(DeallocUses(fn, singleBlockLocations[k])) :
      \E u \in Range(Uses(fn, singleBlockLocations[k])) :
        u[1] = d[1] /\ u[2] > d[2]

(* Where the assertion is false: only in functions that use a single-block *)
(* location behind its dealloc_stack.                                      *)
C39_FalseOnlyAfterDealloc ==
  "bits.none()" \in asserts => UsedAfterDealloc


(* The references the walks of analyzeLocation have held across a growth   *)
(* of their table, over the calls verify() has made.                       *)
HeldAcrossGrowth ==
  UNION {WalkOfLocation(fn, TableBefore(roots, j), roots[j]).held :
           <<roots, j>> \in
             {rj \in UNION {{<<r, i>> : i \in 1 .. Len(r)} : r \in RootLists} :
                shouldTrackLocation(ValueType(fn, rj[1][rj[2]]))}}

(* C40: during the location analysis no reference into a growable table is *)
(* used after the table may have grown: parentLoc is not dereferenced      *)
(* after the child has been pushed to locations, and the slot subLocIdx    *)
(* refers to is not read after the recursive calls have inserted further   *)
(* keys into subLocationMap.                                               *)
C40_Original == AnalyzedLocations => HeldAcrossGrowth = {}

(* The slot of the memo map alone: subLocIdx is not read after a nested    *)
(* projection has been inserted.                                           *)
C40_MemoSlotNotHeld ==
  AnalyzedLocations => \A h \in HeldAcrossGrowth : h.ref # "subLocIdx"

(* The references held across a growth are those two of                    *)
(* analyzeAddrProjection, and each is held at a projection of a tracked    *)
(* type; a walk without such a projection holds none.                      *)
C40_HeldOnlyAtProjections ==
  AnalyzedLocations =>
    \A h \in HeldAcrossGrowth :
      /\ h.ref \in {"parentLoc", "subLocIdx"}
      /\ \E p \in Range(Positions(fn)) :
           /\ InstAt(fn, p).kind \in {"struct_element_addr", "tuple_element_addr"}
           /\ InstAt(fn, p).res = h.at
           /\ shouldTrackLocation(InstAt(fn, p).ty)

====
